---------------------------- MODULE Spec2Model ----------------------------
(***************************************************************************)
(* A model of the x402 payment facilitator: the instruction verifier, the *)
(* replay-dedup store, the verification pipeline (single request and      *)
(* batch slot) and the settlement pipeline.                               *)
(*                                                                         *)
(* Public keys are strings.  A u64 is kept as three limbs                 *)
(* <<top, mid, lo>> (16 + 24 + 24 bits) so that no intermediate value     *)
(* leaves the range of TLC's 32-bit integers.                             *)
(***************************************************************************)
EXTENDS Integers, Sequences, FiniteSets, TLC

(***************************************************************************)
(* Results.  A Rust panic (an index out of bounds) is the error "Panic":  *)
(* it is no VerificationError and the handler produces no response.       *)
(* rpc lists the keys looked up with get_account, in call order.          *)
(***************************************************************************)
Ok(v) == [ok |-> TRUE, val |-> v, err |-> "none", detail |-> "none", rpc |-> << >>]

Err(e) == [ok |-> FALSE, val |-> "none", err |-> e, detail |-> "none", rpc |-> << >>]

UnexpectedError(d) ==
    [ok |-> FALSE, val |-> "none", err |-> "UnexpectedError", detail |-> d, rpc |-> << >>]

Panic == Err("Panic")

\* VerificationError::as_str: the stable tag of each variant.
AsStr(e) ==
    CASE e = "UnsupportedScheme" -> "unsupported_scheme"
      [] e = "InvalidNetwork" -> "invalid_network"
      [] e = "InvalidInstructionCount" -> "invalid_exact_svm_payload_transaction_instructions_length"
      [] e = "InvalidComputeLimitInstruction" -> "invalid_exact_svm_payload_transaction_instructions_compute_limit_instruction"
      [] e = "InvalidComputePriceInstruction" -> "invalid_exact_svm_payload_transaction_instructions_compute_price_instruction"
      [] e = "ComputePriceTooHigh" -> "invalid_exact_svm_payload_transaction_instructions_compute_price_instruction_too_high"
      [] e = "FeePayerInInstructionAccounts" -> "invalid_exact_svm_payload_transaction_fee_payer_included_in_instruction_accounts"
      [] e = "FeePayerTransferringFunds" -> "invalid_exact_svm_payload_transaction_fee_payer_transferring_funds"
      [] e = "AmountMismatch" -> "invalid_exact_svm_payload_transaction_amount_mismatch"
      [] e = "InvalidCreateATAInstruction" -> "invalid_exact_svm_payload_transaction_create_ata_instruction"
      [] e = "CreateATAIncorrectPayee" -> "invalid_exact_svm_payload_transaction_create_ata_instruction_incorrect_payee"
      [] e = "CreateATAIncorrectAsset" -> "invalid_exact_svm_payload_transaction_create_ata_instruction_incorrect_asset"
      [] e = "TransferToIncorrectATA" -> "invalid_exact_svm_payload_transaction_transfer_to_incorrect_ata"
      [] e = "SenderATANotFound" -> "invalid_exact_svm_payload_transaction_sender_ata_not_found"
      [] e = "ReceiverATANotFound" -> "invalid_exact_svm_payload_transaction_receiver_ata_not_found"
      [] e = "NotATransferInstruction" -> "invalid_exact_svm_payload_transaction_not_a_transfer_instruction"
      [] e = "UnexpectedError" -> "unexpected_verify_error"

(***************************************************************************)
(* u64 arithmetic on limbs.                                                *)
(***************************************************************************)
Limb24 == 16777216

Limb16 == 65536

\* u64::from_le_bytes on an 8-byte slice b (b[1] is the least significant).
U64FromLeBytes(b) ==
    << b[7] + 256 * b[8],
       b[4] + 256 * b[5] + 65536 * b[6],
       b[1] + 256 * b[2] + 65536 * b[3] >>

\* u64 `>` on limbs.
U64Gt(a, b) ==
    \/ a[1] > b[1]
    \/ a[1] = b[1] /\ a[2] > b[2]
    \/ a[1] = b[1] /\ a[2] = b[2] /\ a[3] > b[3]

\* One step of the decimal parse: v * 10 + d with the u64 overflow check.
U64MulAdd10(v, d) ==
    LET lo  == v[3] * 10 + d
        mid == v[2] * 10 + (lo \div Limb24)
        top == v[1] * 10 + (mid \div Limb24)
    IN  [overflow |-> top >= Limb16,
         val |-> << top % Limb16, mid % Limb24, lo % Limb24 >>]

Digits == {"0", "1", "2", "3", "4", "5", "6", "7", "8", "9"}

DigitVal(c) ==
    CASE c = "0" -> 0 [] c = "1" -> 1 [] c = "2" -> 2 [] c = "3" -> 3 [] c = "4" -> 4
      [] c = "5" -> 5 [] c = "6" -> 6 [] c = "7" -> 7 [] c = "8" -> 8 [] c = "9" -> 9

RECURSIVE ParseDigits(_, _)
ParseDigits(s, acc) ==
    IF s = << >> THEN Ok(acc)
    ELSE IF Head(s) \notin Digits THEN Err("InvalidDigit")
    ELSE LET step == U64MulAdd10(acc, DigitVal(Head(s)))
         IN  IF step.overflow THEN Err("PosOverflow")
             ELSE ParseDigits(Tail(s), step.val)

\* str::parse::<u64>: an optional leading "+", then at least one digit.
ParseU64(s) ==
    IF s = << >> THEN Err("Empty")
    ELSE LET body == IF Head(s) = "+" THEN Tail(s) ELSE s
         IN  IF body = << >> THEN Err("InvalidDigit")
             ELSE ParseDigits(body, <<0, 0, 0>>)

(***************************************************************************)
(* Public keys.                                                            *)
(***************************************************************************)
ComputeBudgetProgramId == "ComputeBudget111111111111111111111111111111"

SplTokenProgramId == "TokenkegQfeZyiNwAJbNbGKPFXCWuBvf9Ss623VQ5DA"

SplToken2022ProgramId == "TokenzQdBNbLqP5VEhdkAS6EPFLC1PHnBqCXEpPxuEb"

AssociatedTokenProgramId == "ATokenGPvbdGVxr1b2hvZbsiqW5xWH25efTNsLJA8knL"

\* Strings that are not the base58 text of a 32-byte key.
BadPubkeyStrings == {"", "not-base58"}

\* Pubkey::from_str / str::parse::<Pubkey>.
ParsePubkey(s) == IF s \in BadPubkeyStrings THEN Err("ParsePubkeyError") ELSE Ok(s)

\* get_associated_token_address: the address derived from the seeds
\* (owner, token program, mint) under the associated-token program.
GetAssociatedTokenAddress(owner, mint) ==
    "ata:" \o owner \o ":" \o SplTokenProgramId \o ":" \o mint

(***************************************************************************)
(* Messages.  account_keys is a sequence; instruction indices are 0-based *)
(* as in the wire format.                                                  *)
(***************************************************************************)
InRange(message, idx) == idx < Len(message.account_keys)

KeyAt(message, idx) == message.account_keys[idx + 1]

\* verify_instruction_count
VerifyInstructionCount(tx) ==
    LET count == Len(tx.message.instructions)
    IN  IF count # 3 /\ count # 4 THEN Err("InvalidInstructionCount")
        ELSE Ok(count = 4)

\* verify_compute_limit_instruction
VerifyComputeLimitInstruction(instruction, message) ==
    IF ~InRange(message, instruction.program_id_index) THEN Panic
    ELSE IF KeyAt(message, instruction.program_id_index) # ComputeBudgetProgramId
    THEN Err("InvalidComputeLimitInstruction")
    ELSE IF instruction.data = << >> \/ instruction.data[1] # 2
    THEN Err("InvalidComputeLimitInstruction")
    ELSE Ok(TRUE)

\* 5 lamports = 5_000_000 micro-lamports.
MaxComputeUnitPrice == <<0, 0, 5000000>>

\* A ceiling test that also turns away the ceiling itself (>= for >).
PriceAtOrAboveCeiling(micro_lamports) == ~U64Gt(MaxComputeUnitPrice, micro_lamports)

\* The ceiling test of verify_compute_price_instruction.
PriceTooHigh(micro_lamports) == U64Gt(micro_lamports, MaxComputeUnitPrice)

\* verify_compute_price_instruction
VerifyComputePriceInstruction(instruction, message) ==
    IF ~InRange(message, instruction.program_id_index) THEN Panic
    ELSE IF KeyAt(message, instruction.program_id_index) # ComputeBudgetProgramId
    THEN Err("InvalidComputePriceInstruction")
    ELSE IF instruction.data = << >> \/ instruction.data[1] # 3
    THEN Err("InvalidComputePriceInstruction")
    ELSE IF Len(instruction.data) < 9
    THEN Err("InvalidComputePriceInstruction")
    ELSE LET micro_lamports == U64FromLeBytes(SubSeq(instruction.data, 2, 9))
         IN  IF PriceTooHigh(micro_lamports)
             THEN Err("ComputePriceTooHigh")
             ELSE Ok(TRUE)

\* The account indices of all instructions, in the order the loops visit them.
RECURSIVE AllAccountIndices(_)
AllAccountIndices(instructions) ==
    IF instructions = << >> THEN << >>
    ELSE Head(instructions).accounts \o AllAccountIndices(Tail(instructions))

RECURSIVE ScanFeePayer(_, _, _)
ScanFeePayer(indices, message, fee_payer) ==
    IF indices = << >> THEN Ok(TRUE)
    ELSE IF ~InRange(message, Head(indices)) THEN Panic
    ELSE IF KeyAt(message, Head(indices)) = fee_payer
    THEN Err("FeePayerInInstructionAccounts")
    ELSE ScanFeePayer(Tail(indices), message, fee_payer)

\* A pipeline without the cross-instruction scan.
NoFeePayerScan(tx, fee_payer) == Ok(TRUE)

\* verify_fee_payer_safety
VerifyFeePayerSafety(tx, fee_payer) ==
    ScanFeePayer(AllAccountIndices(tx.message.instructions), tx.message, fee_payer)

\* A lookup that reports every account as found.
AccountAlwaysFound(rpc, n, key) == TRUE

\* The n-th get_account call of a verification succeeds for the keys in rpc[n].
GetAccountOk(rpc, n, key) == key \in rpc[n]

\* An amount test that only turns away underpayment (< for !=).
AmountBelow(amount, required_amount) == U64Gt(required_amount, amount)

\* The amount test of verify_transfer_instruction: exact equality.
AmountDiffers(amount, required_amount) == amount # required_amount

\* A destination test that lets every destination through.
DestinationUnchecked(destination, expected_destination) == FALSE

\* The destination test of verify_transfer_instruction.
DestinationDiffers(destination, expected_destination) ==
    destination # expected_destination

\* A transfer check that looks the source account up before it compares the
\* destination.
VerifyTransferLookupFirst(instruction, message, requirements, fee_payer, has_create_ata, rpc) ==
    IF ~InRange(message, instruction.program_id_index) THEN Panic
    ELSE IF /\ KeyAt(message, instruction.program_id_index) # SplTokenProgramId
            /\ KeyAt(message, instruction.program_id_index) # SplToken2022ProgramId
    THEN Err("NotATransferInstruction")
    ELSE IF Len(instruction.data) < 10 \/ instruction.data[1] # 12
    THEN Err("NotATransferInstruction")
    ELSE LET amount == U64FromLeBytes(SubSeq(instruction.data, 2, 9))
             required_amount == ParseU64(requirements.max_amount_required)
         IN
         IF ~required_amount.ok THEN Err("AmountMismatch")
         ELSE IF AmountDiffers(amount, required_amount.val) THEN Err("AmountMismatch")
         ELSE IF Len(instruction.accounts) < 4 THEN Err("NotATransferInstruction")
         ELSE IF \/ ~InRange(message, instruction.accounts[1])
                 \/ ~InRange(message, instruction.accounts[3])
                 \/ ~InRange(message, instruction.accounts[4])
         THEN Panic
         ELSE LET source == KeyAt(message, instruction.accounts[1])
                  destination == KeyAt(message, instruction.accounts[3])
                  authority == KeyAt(message, instruction.accounts[4])
                  pay_to == ParsePubkey(requirements.pay_to)
                  asset == ParsePubkey(requirements.asset)
              IN
              IF authority = fee_payer THEN Err("FeePayerTransferringFunds")
              ELSE IF ~pay_to.ok THEN Err("TransferToIncorrectATA")
              ELSE IF ~asset.ok THEN Err("TransferToIncorrectATA")
              ELSE LET expected_destination ==
                           GetAssociatedTokenAddress(pay_to.val, asset.val)
                   IN
                   IF ~GetAccountOk(rpc, 1, source)
                   THEN [Err("SenderATANotFound") EXCEPT !.rpc = <<source>>]
                   ELSE IF DestinationDiffers(destination, expected_destination)
                   THEN [Err("TransferToIncorrectATA") EXCEPT !.rpc = <<source>>]
                   ELSE IF has_create_ata
                   THEN [Ok(TRUE) EXCEPT !.rpc = <<source>>]
                   ELSE IF ~GetAccountOk(rpc, 2, expected_destination)
                   THEN [Err("ReceiverATANotFound") EXCEPT
                             !.rpc = <<source, expected_destination>>]
                   ELSE [Ok(TRUE) EXCEPT !.rpc = <<source, expected_destination>>]

\* verify_transfer_instruction
VerifyTransferInstruction(instruction, message, requirements, fee_payer, has_create_ata, rpc) ==
    IF ~InRange(message, instruction.program_id_index) THEN Panic
    ELSE IF /\ KeyAt(message, instruction.program_id_index) # SplTokenProgramId
            /\ KeyAt(message, instruction.program_id_index) # SplToken2022ProgramId
    THEN Err("NotATransferInstruction")
    ELSE IF Len(instruction.data) < 10 \/ instruction.data[1] # 12
    THEN Err("NotATransferInstruction")
    ELSE LET amount == U64FromLeBytes(SubSeq(instruction.data, 2, 9))
             required_amount == ParseU64(requirements.max_amount_required)
         IN
         IF ~required_amount.ok THEN Err("AmountMismatch")
         ELSE IF AmountDiffers(amount, required_amount.val) THEN Err("AmountMismatch")
         ELSE IF Len(instruction.accounts) < 4 THEN Err("NotATransferInstruction")
         ELSE IF \/ ~InRange(message, instruction.accounts[1])
                 \/ ~InRange(message, instruction.accounts[3])
                 \/ ~InRange(message, instruction.accounts[4])
         THEN Panic
         ELSE LET source == KeyAt(message, instruction.accounts[1])
                  destination == KeyAt(message, instruction.accounts[3])
                  authority == KeyAt(message, instruction.accounts[4])
                  pay_to == ParsePubkey(requirements.pay_to)
                  asset == ParsePubkey(requirements.asset)
              IN
              IF authority = fee_payer THEN Err("FeePayerTransferringFunds")
              ELSE IF ~pay_to.ok THEN Err("TransferToIncorrectATA")
              ELSE IF ~asset.ok THEN Err("TransferToIncorrectATA")
              ELSE LET expected_destination ==
                           GetAssociatedTokenAddress(pay_to.val, asset.val)
                   IN
                   IF DestinationDiffers(destination, expected_destination)
                   THEN Err("TransferToIncorrectATA")
                   ELSE IF ~GetAccountOk(rpc, 1, source)
                   THEN [Err("SenderATANotFound") EXCEPT !.rpc = <<source>>]
                   ELSE IF has_create_ata
                   THEN [Ok(TRUE) EXCEPT !.rpc = <<source>>]
                   ELSE IF ~GetAccountOk(rpc, 2, expected_destination)
                   THEN [Err("ReceiverATANotFound") EXCEPT
                             !.rpc = <<source, expected_destination>>]
                   ELSE [Ok(TRUE) EXCEPT !.rpc = <<source, expected_destination>>]

\* A Create-ATA check that compares the mint before the owner.
VerifyCreateAtaMintFirst(instruction, message, requirements) ==
    IF ~InRange(message, instruction.program_id_index) THEN Panic
    ELSE IF KeyAt(message, instruction.program_id_index) # AssociatedTokenProgramId
    THEN Err("InvalidCreateATAInstruction")
    ELSE IF Len(instruction.accounts) < 6 THEN Err("InvalidCreateATAInstruction")
    ELSE IF \/ ~InRange(message, instruction.accounts[3])
            \/ ~InRange(message, instruction.accounts[4])
    THEN Panic
    ELSE IF KeyAt(message, instruction.accounts[4]) # requirements.asset
    THEN Err("CreateATAIncorrectAsset")
    ELSE IF KeyAt(message, instruction.accounts[3]) # requirements.pay_to
    THEN Err("CreateATAIncorrectPayee")
    ELSE Ok(TRUE)

\* verify_create_ata_instruction
VerifyCreateAtaInstruction(instruction, message, requirements) ==
    IF ~InRange(message, instruction.program_id_index) THEN Panic
    ELSE IF KeyAt(message, instruction.program_id_index) # AssociatedTokenProgramId
    THEN Err("InvalidCreateATAInstruction")
    ELSE IF Len(instruction.accounts) < 6 THEN Err("InvalidCreateATAInstruction")
    ELSE IF \/ ~InRange(message, instruction.accounts[3])
            \/ ~InRange(message, instruction.accounts[4])
    THEN Panic
    ELSE LET owner == KeyAt(message, instruction.accounts[3])
             mint == KeyAt(message, instruction.accounts[4])
             pay_to == ParsePubkey(requirements.pay_to)
             asset == ParsePubkey(requirements.asset)
         IN
         IF ~pay_to.ok THEN Err("CreateATAIncorrectPayee")
         ELSE IF owner # pay_to.val THEN Err("CreateATAIncorrectPayee")
         ELSE IF ~asset.ok THEN Err("CreateATAIncorrectAsset")
         ELSE IF mint # asset.val THEN Err("CreateATAIncorrectAsset")
         ELSE Ok(TRUE)

(***************************************************************************)
(* Configuration.  The windows are configuration values (environment      *)
(* variables with defaults 600, 300 and 10000); the model runs the server *)
(* with small ones so that expiry and eviction happen within MaxTime.     *)
(***************************************************************************)
PaymentExpirySeconds == 1

DedupWindowSeconds == 2

DedupMaxEntries == 1

\* The clock stops at MaxTime.
MaxTime == 3

(***************************************************************************)
(* The replay-dedup store: a TTL map from fingerprint to insertion time.   *)
(***************************************************************************)
\* hash_transaction: the SHA-256 hex digest of the raw text, injective.
HashTransaction(transaction_data) == <<"sha256", transaction_data>>

\* Cache::get: an entry is found until its time to live has elapsed.
DedupGetOneSecondShort(store, hash, t) ==
    hash \in DOMAIN store /\ t + 1 < store[hash] + DedupWindowSeconds

DedupGet(store, hash, t) ==
    hash \in DOMAIN store /\ t < store[hash] + DedupWindowSeconds

\* Cache::insert: a new entry, or a fresh write time for an existing one.
DedupInsert(store, hash, t) == (hash :> t) @@ store

\* A check_and_mark that looks the fingerprint up but never records it.
CheckWithoutMark(store, transaction_data, t) ==
    [dup |-> DedupGet(store, HashTransaction(transaction_data), t), store |-> store]

\* TransactionDedup::check_and_mark, run without interference.
CheckAndMark(store, transaction_data, t) ==
    LET hash == HashTransaction(transaction_data)
    IN  IF DedupGet(store, hash, t)
        THEN [dup |-> TRUE, store |-> store]
        ELSE [dup |-> FALSE, store |-> DedupInsert(store, hash, t)]

(***************************************************************************)
(* The verification pipeline.                                              *)
(***************************************************************************)
\* decode_transaction_from_base64: base64, then bincode (trailing bytes are
\* ignored by bincode::deserialize).
DecodeTransactionFromBase64(encoded) ==
    IF encoded.enc = "ok" THEN Ok(encoded.tx) ELSE Err("DecodeError")

\* A subtraction that wraps around below zero.
WrappingSub(a, b) == (a - b) % (2 ^ 30)

\* u64::saturating_sub
SaturatingSub(a, b) == IF a >= b THEN a - b ELSE 0

\* A network list that also takes the testnet.
SupportedNetworksWithTestnet == {"solana", "solana-devnet", "solana-testnet"}

SupportedNetworks == {"solana", "solana-devnet"}

\* A pipeline that reads the transfer at index 2 whatever the count.
TransferIdxAlwaysThird(has_create_ata) == 2

\* The index verify_payment reads the transfer instruction at.
TransferIdx(has_create_ata) == IF has_create_ata THEN 3 ELSE 2

\* An expiry step that also turns away an age equal to the limit (>= for >).
IsExpiredAtLimit(timestamp, current_time) ==
    /\ timestamp # << >>
    /\ SaturatingSub(current_time, timestamp[1]) >= PaymentExpirySeconds

\* The expiry step of verify_payment: the age test on a present timestamp.
IsExpired(timestamp, current_time) ==
    /\ timestamp # << >>
    /\ SaturatingSub(current_time, timestamp[1]) > PaymentExpirySeconds

\* Instruction checks that look at the compute-price instruction before the
\* compute-limit instruction.
VerifyInstructionsPriceFirst(transaction, requirements, fee_payer, payer, rpc) ==
    LET message == transaction.message
        count == VerifyInstructionCount(transaction)
    IN
    IF ~count.ok THEN count
    ELSE LET has_create_ata == count.val
             limit == VerifyComputeLimitInstruction(message.instructions[1], message)
             price == VerifyComputePriceInstruction(message.instructions[2], message)
             safety == VerifyFeePayerSafety(transaction, fee_payer)
             create_ata ==
                 IF has_create_ata
                 THEN VerifyCreateAtaInstruction(message.instructions[3], message, requirements)
                 ELSE Ok(TRUE)
             transfer ==
                 VerifyTransferInstruction(message.instructions[TransferIdx(has_create_ata) + 1],
                                           message, requirements, fee_payer, has_create_ata, rpc)
         IN
         IF ~price.ok THEN price
         ELSE IF ~limit.ok THEN limit
         ELSE IF ~safety.ok THEN safety
         ELSE IF ~create_ata.ok THEN create_ata
         ELSE IF ~transfer.ok THEN transfer
         ELSE [Ok(payer) EXCEPT !.rpc = transfer.rpc]

\* The instruction checks of verify_payment, after the fee payer is parsed.
VerifyInstructions(transaction, requirements, fee_payer, payer, rpc) ==
    LET message == transaction.message
        count == VerifyInstructionCount(transaction)
    IN
    IF ~count.ok THEN count
    ELSE LET has_create_ata == count.val
             limit == VerifyComputeLimitInstruction(message.instructions[1], message)
             price == VerifyComputePriceInstruction(message.instructions[2], message)
             safety == VerifyFeePayerSafety(transaction, fee_payer)
             create_ata ==
                 IF has_create_ata
                 THEN VerifyCreateAtaInstruction(message.instructions[3], message, requirements)
                 ELSE Ok(TRUE)
             transfer_idx == TransferIdx(has_create_ata)
             transfer ==
                 VerifyTransferInstruction(message.instructions[transfer_idx + 1], message,
                                           requirements, fee_payer, has_create_ata, rpc)
         IN
         IF ~limit.ok THEN limit
         ELSE IF ~price.ok THEN price
         ELSE IF ~safety.ok THEN safety
         ELSE IF ~create_ata.ok THEN create_ata
         ELSE IF ~transfer.ok THEN transfer
         ELSE [Ok(payer) EXCEPT !.rpc = transfer.rpc]

\* verify_payment (handlers/verify.rs), after the dedup step answered
\* is_duplicate.
VerifyPaymentSteps(request, is_duplicate, current_time, rpc) ==
    LET payload == request.payment_payload
        requirements == request.payment_requirements
        decoded == DecodeTransactionFromBase64(payload.transaction)
        fee_payer == ParsePubkey(requirements.fee_payer)
    IN
    IF is_duplicate THEN UnexpectedError("duplicate")
    ELSE IF IsExpired(payload.timestamp, current_time)
    THEN UnexpectedError("expired")
    ELSE IF payload.scheme # requirements.scheme \/ payload.scheme # "exact"
    THEN Err("UnsupportedScheme")
    ELSE IF payload.network # requirements.network THEN Err("InvalidNetwork")
    ELSE IF requirements.network \notin SupportedNetworks THEN Err("InvalidNetwork")
    ELSE IF ~decoded.ok THEN UnexpectedError("decode")
    ELSE IF ~fee_payer.ok THEN UnexpectedError("fee_payer")
    ELSE LET transaction == decoded.val
             payer == IF Len(transaction.message.account_keys) >= 2
                      THEN transaction.message.account_keys[2]
                      ELSE "unknown"
         IN  VerifyInstructions(transaction, requirements, fee_payer.val, payer, rpc)

\* A verification that records the fingerprint only once every check passed.
VerifyPaymentMarkOnSuccess(store, request, current_time, rpc) ==
    LET cam == CheckAndMark(store, request.payment_payload.transaction, current_time)
        res == VerifyPaymentSteps(request, cam.dup, current_time, rpc)
    IN  [res |-> res, dup |-> cam.dup, store |-> IF res.ok THEN cam.store ELSE store]

\* verify_payment against the store: the result and the store it leaves.
VerifyPayment(store, request, current_time, rpc) ==
    LET cam == CheckAndMark(store, request.payment_payload.transaction, current_time)
    IN  [res |-> VerifyPaymentSteps(request, cam.dup, current_time, rpc),
         dup |-> cam.dup,
         store |-> cam.store]

\* A batch verification without the expiry step.
VerifyPaymentSyncNoExpiry(store, request, current_time, rpc) ==
    LET payload == request.payment_payload
        requirements == request.payment_requirements
        transaction_data == payload.transaction
        is_duplicate == DedupGet(store, HashTransaction(transaction_data), current_time)
        marked == IF is_duplicate THEN store
                  ELSE DedupInsert(store, HashTransaction(transaction_data), current_time)
        age_seconds == IF payload.timestamp = << >> THEN 0
                       ELSE SaturatingSub(current_time, payload.timestamp[1])
        decoded == DecodeTransactionFromBase64(payload.transaction)
        fee_payer == ParsePubkey(requirements.fee_payer)
        transaction == decoded.val
        message == transaction.message
        payer == IF Len(message.account_keys) >= 2 THEN message.account_keys[2]
                 ELSE "unknown"
        count == VerifyInstructionCount(transaction)
        has_create_ata == count.val
        limit == VerifyComputeLimitInstruction(message.instructions[1], message)
        price == VerifyComputePriceInstruction(message.instructions[2], message)
        safety == VerifyFeePayerSafety(transaction, fee_payer.val)
        create_ata == VerifyCreateAtaInstruction(message.instructions[3], message,
                                                 requirements)
        transfer_idx == IF has_create_ata THEN 3 ELSE 2
        transfer == VerifyTransferInstruction(message.instructions[transfer_idx + 1],
                                              message, requirements, fee_payer.val,
                                              has_create_ata, rpc)
        res ==
            IF is_duplicate THEN UnexpectedError("duplicate")
            ELSE IF FALSE
            THEN UnexpectedError("expired")
            ELSE IF payload.scheme # requirements.scheme \/ payload.scheme # "exact"
            THEN Err("UnsupportedScheme")
            ELSE IF payload.network # requirements.network THEN Err("InvalidNetwork")
            ELSE IF requirements.network # "solana" /\ requirements.network # "solana-devnet"
            THEN Err("InvalidNetwork")
            ELSE IF ~decoded.ok THEN UnexpectedError("decode")
            ELSE IF ~fee_payer.ok THEN UnexpectedError("fee_payer")
            ELSE IF ~count.ok THEN count
            ELSE IF ~limit.ok THEN limit
            ELSE IF ~price.ok THEN price
            ELSE IF ~safety.ok THEN safety
            ELSE IF has_create_ata /\ ~create_ata.ok THEN create_ata
            ELSE IF ~transfer.ok THEN transfer
            ELSE [Ok(payer) EXCEPT !.rpc = transfer.rpc]
    IN  [res |-> res, dup |-> is_duplicate, store |-> marked]

\* verify_payment_sync (parallel.rs) against the store: the result and the
\* store it leaves.
VerifyPaymentSync(store, request, current_time, rpc) ==
    LET payload == request.payment_payload
        requirements == request.payment_requirements
        transaction_data == payload.transaction
        is_duplicate == DedupGet(store, HashTransaction(transaction_data), current_time)
        marked == IF is_duplicate THEN store
                  ELSE DedupInsert(store, HashTransaction(transaction_data), current_time)
        age_seconds == IF payload.timestamp = << >> THEN 0
                       ELSE SaturatingSub(current_time, payload.timestamp[1])
        decoded == DecodeTransactionFromBase64(payload.transaction)
        fee_payer == ParsePubkey(requirements.fee_payer)
        transaction == decoded.val
        message == transaction.message
        payer == IF Len(message.account_keys) >= 2 THEN message.account_keys[2]
                 ELSE "unknown"
        count == VerifyInstructionCount(transaction)
        has_create_ata == count.val
        limit == VerifyComputeLimitInstruction(message.instructions[1], message)
        price == VerifyComputePriceInstruction(message.instructions[2], message)
        safety == VerifyFeePayerSafety(transaction, fee_payer.val)
        create_ata == VerifyCreateAtaInstruction(message.instructions[3], message,
                                                 requirements)
        transfer_idx == IF has_create_ata THEN 3 ELSE 2
        transfer == VerifyTransferInstruction(message.instructions[transfer_idx + 1],
                                              message, requirements, fee_payer.val,
                                              has_create_ata, rpc)
        res ==
            IF is_duplicate THEN UnexpectedError("duplicate")
            ELSE IF payload.timestamp # << >> /\ age_seconds > PaymentExpirySeconds
            THEN UnexpectedError("expired")
            ELSE IF payload.scheme # requirements.scheme \/ payload.scheme # "exact"
            THEN Err("UnsupportedScheme")
            ELSE IF payload.network # requirements.network THEN Err("InvalidNetwork")
            ELSE IF requirements.network # "solana" /\ requirements.network # "solana-devnet"
            THEN Err("InvalidNetwork")
            ELSE IF ~decoded.ok THEN UnexpectedError("decode")
            ELSE IF ~fee_payer.ok THEN UnexpectedError("fee_payer")
            ELSE IF ~count.ok THEN count
            ELSE IF ~limit.ok THEN limit
            ELSE IF ~price.ok THEN price
            ELSE IF ~safety.ok THEN safety
            ELSE IF has_create_ata /\ ~create_ata.ok THEN create_ata
            ELSE IF ~transfer.ok THEN transfer
            ELSE [Ok(payer) EXCEPT !.rpc = transfer.rpc]
    IN  [res |-> res, dup |-> is_duplicate, store |-> marked]

\* A response whose reason is the error's detail where it has one.
VerifyResponseWithDetail(res) ==
    IF res.err = "Panic"
    THEN [responded |-> FALSE, is_valid |-> FALSE, invalid_reason |-> << >>, payer |-> << >>]
    ELSE IF res.ok
    THEN [responded |-> TRUE, is_valid |-> TRUE, invalid_reason |-> << >>,
          payer |-> <<res.val>>]
    ELSE [responded |-> TRUE, is_valid |-> FALSE,
          invalid_reason |-> <<IF res.detail = "none" THEN AsStr(res.err) ELSE res.detail>>,
          payer |-> << >>]

\* The VerifyResponse the verify handler (and verify_single_sync) builds; a
\* panic unwinds the handler and no response is produced.
VerifyResponse(res) ==
    IF res.err = "Panic"
    THEN [responded |-> FALSE, is_valid |-> FALSE, invalid_reason |-> << >>, payer |-> << >>]
    ELSE IF res.ok
    THEN [responded |-> TRUE, is_valid |-> TRUE, invalid_reason |-> << >>,
          payer |-> <<res.val>>]
    ELSE [responded |-> TRUE, is_valid |-> FALSE, invalid_reason |-> <<AsStr(res.err)>>,
          payer |-> << >>]

(***************************************************************************)
(* The settlement pipeline.                                                *)
(***************************************************************************)
NoSettlement ==
    [decoded |-> FALSE, key_loaded |-> FALSE, signed |-> << >>, sent |-> FALSE]

\* settle_transaction: decode again, load the key, sign, submit.  submit_ok is
\* the outcome of submit_transaction_with_retries.
SettleTransaction(request, submit_ok) ==
    LET decoded == DecodeTransactionFromBase64(request.payment_payload.transaction)
    IN  IF ~decoded.ok
        THEN [res |-> Err("DecodeError"),
              eff |-> NoSettlement]
        ELSE [res |-> IF submit_ok THEN Ok("fee-payer-signature") ELSE Err("SubmitError"),
              eff |-> [decoded |-> TRUE, key_loaded |-> TRUE,
                       signed |-> <<decoded.val>>, sent |-> TRUE]]

\* A settle that goes on whatever the verification answered.
VerificationIgnored(verify_response) == TRUE

\* settle goes on to settle_transaction only when the verification accepted.
VerificationAccepted(verify_response) == verify_response.is_valid

\* settle: the embedded verify call, then settle_transaction when it accepted.
Settle(request, verify_response, submit_ok) ==
    LET network == request.payment_requirements.network
    IN
    IF ~verify_response.responded
    THEN [resp |-> [responded |-> FALSE, success |-> FALSE, network |-> network,
                    transaction |-> "", payer |-> << >>, error_reason |-> << >>],
          eff |-> NoSettlement]
    ELSE IF ~VerificationAccepted(verify_response)
    THEN [resp |-> [responded |-> TRUE, success |-> FALSE, network |-> network,
                    transaction |-> "", payer |-> verify_response.payer,
                    error_reason |-> verify_response.invalid_reason],
          eff |-> NoSettlement]
    ELSE LET st == SettleTransaction(request, submit_ok)
         IN  IF st.res.ok
             THEN [resp |-> [responded |-> TRUE, success |-> TRUE, network |-> network,
                             transaction |-> st.res.val, payer |-> verify_response.payer,
                             error_reason |-> << >>],
                   eff |-> st.eff]
             ELSE [resp |-> [responded |-> TRUE, success |-> FALSE, network |-> network,
                             transaction |-> "", payer |-> verify_response.payer,
                             error_reason |-> <<"settle_error: " \o st.res.err>>],
                   eff |-> st.eff]

(***************************************************************************)
(* Requests.  A request is built from a record of choices, one per         *)
(* dimension; Base is scenario 1, the valid 3-instruction transfer.        *)
(***************************************************************************)
FeePayer == "FeePayerWallet"

Client == "ClientWallet"

PayTo == "PayToWallet"

Mint == "AssetMint"

SourceAta == "ClientTokenAccount"

\* The associated token address of PayTo under Mint, written out.
DestAta == "ata:PayToWallet:TokenkegQfeZyiNwAJbNbGKPFXCWuBvf9Ss623VQ5DA:AssetMint"

\* The account table of the transactions (index 0 is the fee payer's slot).
AccountKeys ==
    << FeePayer, Client, SourceAta, Mint, DestAta, ComputeBudgetProgramId,
       SplTokenProgramId, AssociatedTokenProgramId, PayTo, "OtherTokenAccount",
       "11111111111111111111111111111111", SplToken2022ProgramId, "OtherMint",
       "OtherWallet" >>

\* An index outside the account table.
OutOfRange == Len(AccountKeys)

Instruction(p, a, d) == [program_id_index |-> p, accounts |-> a, data |-> d]

\* SetComputeUnitLimit(200_000) and its malformed variants.
LimitInstruction(l) ==
    CASE l = "ok" -> Instruction(5, << >>, <<2, 64, 13, 3, 0>>)
      [] l = "wrong_program" -> Instruction(6, << >>, <<2, 64, 13, 3, 0>>)
      [] l = "empty_data" -> Instruction(5, << >>, << >>)
      [] l = "wrong_discriminator" -> Instruction(5, << >>, <<3, 64, 13, 3, 0>>)
      [] l = "fee_payer_account" -> Instruction(5, <<0>>, <<2, 64, 13, 3, 0>>)
      [] l = "out_of_range_account" -> Instruction(5, <<OutOfRange, 0>>, <<2, 64, 13, 3, 0>>)
      [] l = "out_of_range_program" -> Instruction(OutOfRange, << >>, <<2, 64, 13, 3, 0>>)

LimitChoices ==
    {"ok", "wrong_program", "empty_data", "wrong_discriminator", "fee_payer_account",
     "out_of_range_account", "out_of_range_program"}

\* The 8 price bytes: values around the ceiling 5_000_000 = 0x4C4B40, with
\* and without high bytes set, and 0, 100 and the u64 maximum.
PriceBytes ==
    {<<b1, 75, b3, b4, 0, 0, 0, b8>> :
        b1 \in {63, 64, 65}, b3 \in {75, 76, 77}, b4 \in {0, 1}, b8 \in {0, 255}}
    \cup {<<0, 0, 0, 0, 0, 0, 0, 0>>, <<100, 0, 0, 0, 0, 0, 0, 0>>,
          <<0, 0, 0, 0, 1, 0, 0, 0>>,
          <<255, 255, 255, 255, 255, 255, 255, 255>>}

\* SetComputeUnitPrice and its malformed variants.
PriceInstruction(pr) ==
    CASE pr.kind = "ok" -> Instruction(5, << >>, <<3>> \o pr.bytes)
      [] pr.kind = "wrong_program" -> Instruction(6, << >>, <<3>> \o pr.bytes)
      [] pr.kind = "wrong_discriminator" -> Instruction(5, << >>, <<2>> \o pr.bytes)
      [] pr.kind = "empty_data" -> Instruction(5, << >>, << >>)
      [] pr.kind = "short_data" -> Instruction(5, << >>, <<3>> \o SubSeq(pr.bytes, 1, 7))
      [] pr.kind = "fee_payer_account" -> Instruction(5, <<0>>, <<3>> \o pr.bytes)

PriceChoices ==
    {[kind |-> "ok", bytes |-> b] : b \in PriceBytes}
    \cup {[kind |-> k, bytes |-> <<100, 0, 0, 0, 0, 0, 0, 0>>] :
            k \in {"wrong_program", "wrong_discriminator", "empty_data", "short_data",
                   "fee_payer_account"}}

\* CreateAssociatedTokenAccount [payer, ata, owner, mint, system, token].
CreateAtaInstruction(a) ==
    CASE a = "ok" -> Instruction(7, <<1, 4, 8, 3, 10, 6>>, << >>)
      [] a = "wrong_program" -> Instruction(6, <<1, 4, 8, 3, 10, 6>>, << >>)
      [] a = "five_accounts" -> Instruction(7, <<1, 4, 8, 3, 10>>, << >>)
      [] a = "wrong_owner" -> Instruction(7, <<1, 4, 13, 3, 10, 6>>, << >>)
      [] a = "wrong_mint" -> Instruction(7, <<1, 4, 8, 12, 10, 6>>, << >>)
      [] a = "fee_payer_funds" -> Instruction(7, <<0, 4, 8, 3, 10, 6>>, << >>)
      [] a = "out_of_range_owner" -> Instruction(7, <<1, 4, OutOfRange, 3, 10, 6>>, << >>)
      [] a = "wrong_owner_and_mint" -> Instruction(7, <<1, 4, 13, 12, 10, 6>>, << >>)
      [] a = "out_of_range_program" -> Instruction(OutOfRange, <<1, 4, 8, 3, 10, 6>>, << >>)

CreateAtaChoices ==
    {"ok", "wrong_program", "five_accounts", "wrong_owner", "wrong_mint",
     "fee_payer_funds", "out_of_range_owner", "wrong_owner_and_mint", "out_of_range_program"}

\* The little-endian bytes of the transfer amounts, by decimal name.
AmountBytes(n) ==
    CASE n = "1000000" -> <<64, 66, 15, 0, 0, 0, 0, 0>>
      [] n = "999999" -> <<63, 66, 15, 0, 0, 0, 0, 0>>
      [] n = "1000001" -> <<65, 66, 15, 0, 0, 0, 0, 0>>
      [] n = "4295967296" -> <<64, 66, 15, 0, 1, 0, 0, 0>>
      [] n = "0" -> <<0, 0, 0, 0, 0, 0, 0, 0>>
      [] n = "18446744073709551615" -> <<255, 255, 255, 255, 255, 255, 255, 255>>

AmountChoices ==
    {"1000000", "999999", "1000001", "4295967296", "0", "18446744073709551615"}

\* TransferChecked [source, mint, destination, authority], data
\* discriminator 12, amount, decimals 6; and its malformed variants.
TransferInstruction(x, n) ==
    LET data == <<12>> \o AmountBytes(n) \o <<6>>
    IN
    CASE x = "ok" -> Instruction(6, <<2, 3, 4, 1>>, data)
      [] x = "token_2022" -> Instruction(11, <<2, 3, 4, 1>>, data)
      [] x = "wrong_program" -> Instruction(10, <<2, 3, 4, 1>>, data)
      [] x = "out_of_range_program" -> Instruction(OutOfRange, <<2, 3, 4, 1>>, data)
      [] x = "plain_transfer" -> Instruction(6, <<2, 3, 4, 1>>, <<3>> \o AmountBytes(n) \o <<6>>)
      [] x = "short_data" -> Instruction(6, <<2, 3, 4, 1>>, <<12>> \o AmountBytes(n))
      [] x = "three_accounts" -> Instruction(6, <<2, 3, 4>>, data)
      [] x = "authority_fee_payer" -> Instruction(6, <<2, 3, 4, 0>>, data)
      [] x = "source_fee_payer" -> Instruction(6, <<0, 3, 4, 1>>, data)
      [] x = "extra_fee_payer" -> Instruction(6, <<2, 3, 4, 1, 0>>, data)
      [] x = "wrong_destination" -> Instruction(6, <<2, 3, 9, 1>>, data)
      [] x = "destination_is_wallet" -> Instruction(6, <<2, 3, 8, 1>>, data)
      [] x = "out_of_range_authority" -> Instruction(6, <<2, 3, 4, OutOfRange>>, data)

TransferChoices ==
    {"ok", "token_2022", "wrong_program", "out_of_range_program", "plain_transfer",
     "short_data", "three_accounts", "authority_fee_payer", "source_fee_payer",
     "extra_fee_payer", "wrong_destination", "destination_is_wallet",
     "out_of_range_authority"}

\* The instruction list of each shape: the count, and which instructions.
Instructions(c) ==
    LET limit == LimitInstruction(c.limit)
        price == PriceInstruction(c.price)
        create == CreateAtaInstruction(c.create_ata)
        transfer == TransferInstruction(c.transfer, c.amount)
    IN
    CASE c.shape = "3" -> <<limit, price, transfer>>
      [] c.shape = "4" -> <<limit, price, create, transfer>>
      [] c.shape = "4_transfer_third" -> <<limit, price, transfer, create>>
      [] c.shape = "0" -> << >>
      [] c.shape = "2" -> <<limit, price>>
      [] c.shape = "5" -> <<limit, price, create, transfer, transfer>>

ShapeChoices == {"3", "4", "4_transfer_third", "0", "2", "5"}

\* The account table: whole, or cut after the fee payer's slot.
KeysOf(c) == IF c.keys = "all" THEN AccountKeys ELSE SubSeq(AccountKeys, 1, 1)

Transaction(c) ==
    [signatures |-> <<"none", "client-signature">>,
     message |-> [account_keys |-> KeysOf(c), instructions |-> Instructions(c)]]

\* The base64 text: of a transaction, of one with trailing bytes, or of
\* bytes that are no base64 or no transaction.
Blob(c) == [enc |-> c.encoding, trailing |-> c.trailing, tx |-> Transaction(c)]

EncodingChoices == {"ok", "bad_base64", "bad_bincode"}

\* max_amount_required as text, by name.
AmountText(a) ==
    CASE a = "1000000" -> <<"1", "0", "0", "0", "0", "0", "0">>
      [] a = "+1000000" -> <<"+", "1", "0", "0", "0", "0", "0", "0">>
      [] a = "01000000" -> <<"0", "1", "0", "0", "0", "0", "0", "0">>
      [] a = "999999" -> <<"9", "9", "9", "9", "9", "9">>
      [] a = "4295967296" -> <<"4", "2", "9", "5", "9", "6", "7", "2", "9", "6">>
      [] a = "18446744073709551615" ->
             <<"1", "8", "4", "4", "6", "7", "4", "4", "0", "7", "3", "7", "0", "9", "5",
               "5", "1", "6", "1", "5">>
      [] a = "18446744073709551616" ->
             <<"1", "8", "4", "4", "6", "7", "4", "4", "0", "7", "3", "7", "0", "9", "5",
               "5", "1", "6", "1", "6">>
      [] a = "" -> << >>
      [] a = "+" -> <<"+">>
      [] a = "1e6" -> <<"1", "e", "6">>
      [] a = "-1000000" -> <<"-", "1", "0", "0", "0", "0", "0", "0">>

RequiredChoices ==
    {"1000000", "+1000000", "01000000", "999999", "4295967296", "18446744073709551615",
     "18446744073709551616", "", "+", "1e6", "-1000000"}

PaymentPayload(c) ==
    [scheme |-> c.scheme[1], network |-> c.network[1], transaction |-> Blob(c),
     timestamp |-> c.timestamp]

PaymentRequirements(c) ==
    [scheme |-> c.scheme[2], network |-> c.network[2],
     max_amount_required |-> AmountText(c.required), asset |-> c.asset,
     pay_to |-> c.pay_to, fee_payer |-> c.fee_payer]

VerifyRequest(c) ==
    [payment_payload |-> PaymentPayload(c), payment_requirements |-> PaymentRequirements(c)]

\* Scenario 1; the last three fields are the state the request arrives in:
\* the clock, the age of a mark of its blob in the dedup store (none), and
\* the token accounts on chain.
Base ==
    [shape |-> "3", limit |-> "ok",
     price |-> [kind |-> "ok", bytes |-> <<100, 0, 0, 0, 0, 0, 0, 0>>],
     create_ata |-> "ok", transfer |-> "ok", amount |-> "1000000", keys |-> "all",
     encoding |-> "ok", trailing |-> 0,
     scheme |-> <<"exact", "exact">>, network |-> <<"solana-devnet", "solana-devnet">>,
     timestamp |-> << >>, required |-> "1000000", asset |-> Mint, pay_to |-> PayTo,
     fee_payer |-> FeePayer,
     now |-> MaxTime, marked |-> << >>, chain |-> {SourceAta, DestAta}]

Values(d) ==
    CASE d = "shape" -> ShapeChoices
      [] d = "limit" -> LimitChoices
      [] d = "price" -> PriceChoices
      [] d = "create_ata" -> CreateAtaChoices
      [] d = "transfer" -> TransferChoices
      [] d = "amount" -> AmountChoices
      [] d = "keys" -> {"all", "fee_payer_only"}
      [] d = "encoding" -> EncodingChoices
      [] d = "trailing" -> {0, 1}
      [] d = "scheme" -> {<<"exact", "exact">>, <<"exact", "upto">>, <<"upto", "exact">>,
                          <<"upto", "upto">>}
      [] d = "network" -> {<<"solana-devnet", "solana-devnet">>, <<"solana", "solana">>,
                           <<"solana", "solana-devnet">>,
                           <<"solana-testnet", "solana-testnet">>}
      [] d = "timestamp" -> {<< >>} \cup {<<t>> : t \in 0..(MaxTime + 1)}
      [] d = "required" -> RequiredChoices
      [] d = "asset" -> {Mint, "OtherMint", "not-base58"}
      [] d = "pay_to" -> {PayTo, "OtherWallet", "not-base58"}
      [] d = "fee_payer" -> {FeePayer, "OtherWallet", "not-base58"}
      [] d = "now" -> 0..MaxTime
      [] d = "marked" -> {<< >>} \cup {<<age>> : age \in 0..DedupWindowSeconds}
      [] d = "chain" -> {{SourceAta, DestAta}, {SourceAta}, {DestAta}, { }}

Dimensions == DOMAIN Base

\* Scenario 1 changed in at most two dimensions; a mark is not older than
\* the clock.
Choices ==
    {c \in UNION {{[Base EXCEPT ![d1] = v1, ![d2] = v2] :
                       v1 \in Values(d1), v2 \in Values(d2)} :
                  d1 \in Dimensions, d2 \in Dimensions} :
        c.marked = << >> \/ c.marked[1] <= c.now}

(***************************************************************************)
(* State.                                                                  *)
(*   now      the wall clock, in seconds                                   *)
(*   dedup    the replay-dedup store: fingerprint -> insertion time        *)
(*   chain    the token accounts that exist on chain                       *)
(*   pending  the request a single-request run is about to handle          *)
(*   log      the events of the latest handler call: one per verification  *)
(*   window   history: for each blob, when the verification that opened    *)
(*            its current dedup window ran (dropped at a capacity eviction)*)
(*   unit     the results of the verifier functions called on their own    *)
(*   sub      one submit_transaction_with_retries call: where it is, the   *)
(*            attempt, the time since the send, and what it did so far     *)
(*   fx       the side effects outstanding: the audit events on the        *)
(*            writer's channel, the webhook deliveries in flight by the    *)
(*            attempt they are at, and the webhooks the latest call        *)
(*            spawned, the audit events it sent and the metric counters it *)
(*            incremented                                                  *)
(*   cache    the account cache: for each cached key, when it was inserted *)
(*   lookups  the latest check_account_exists call: the key, whether the   *)
(*            RPC would answer, what the call returned, the RPC calls it   *)
(*            made, and whether the call before was a failed lookup of     *)
(*            the same key                                                 *)
(*   hook     one send_webhook call: where it is, the attempt, the POSTs   *)
(*            made, the answers they got and the waits in between          *)
(*   batch    when the latest call was POST /verify/batch: its inputs, the *)
(*            order the pool ran the slots in, and the response body       *)
(*   calls    the handler calls running concurrently, per worker: the       *)
(*            request, where its check_and_mark stands and what it         *)
(*            returned, and what the /settle around it went on to do       *)
(***************************************************************************)
VARIABLES now, dedup, chain, pending, log, window, unit, calls, batch, sub, fx, cache,
          lookups, hook

vars == <<now, dedup, chain, pending, log, window, unit, calls, batch, sub, fx, cache,
          lookups, hook>>

Workers == {"w1", "w2", "w3"}

EmptyStore == [h \in { } |-> 0]

Idle == [pc |-> "idle", c |-> << >>, data |-> << >>, ret |-> << >>, settled |-> << >>]

\* No send_webhook call under way.
NoDelivery ==
    [pc |-> "idle", enabled |-> FALSE, retry_attempts |-> 0, secret |-> "", payload |-> "",
     attempt |-> 0, posts |-> << >>, outcomes |-> << >>, sleeps |-> << >>,
     last_error |-> << >>, result |-> << >>]

\* No side effect outstanding and no webhook configured.
NoSideEffects ==
    [webhook |-> FALSE, audit |-> << >>, hooks |-> <<0, 0, 0>>, spawned |-> << >>,
     logged |-> << >>, counted |-> << >>]

\* No submission running.
NoSubmission ==
    [pc |-> "idle", transaction |-> "", max_retries |-> 0, attempt |-> 0, elapsed |-> 0,
     last |-> "", polls |-> 0, ret |-> << >>, sent |-> << >>, attempts |-> << >>,
     backoffs |-> << >>, last_error |-> << >>, result |-> << >>,
     accepted |-> FALSE, landed |-> FALSE]

\* Whether the RPC endpoint answers the first and the second get_account call.
RpcUps == {<<TRUE, TRUE>>, <<FALSE, TRUE>>, <<TRUE, FALSE>>}

\* The keys each get_account call of one verification finds.
RpcAnswers(up) == <<IF up[1] THEN chain ELSE { }, IF up[2] THEN chain ELSE { }>>

\* The verifier functions on the request's own instructions, as the unit
\* tests call them.
UnitResults(c, rpc) ==
    LET message == Transaction(c).message
        fee_payer == ParsePubkey(c.fee_payer)
    IN  [c |-> c,
         count |-> VerifyInstructionCount(Transaction(c)),
         price |-> VerifyComputePriceInstruction(PriceInstruction(c.price), message),
         transfer |->
             IF fee_payer.ok
             THEN VerifyTransferInstruction(TransferInstruction(c.transfer, c.amount),
                                            message, PaymentRequirements(c), fee_payer.val,
                                            c.shape = "4", rpc)
             ELSE Err("absent")]

\* Whether a verification of the blob at time t falls inside a window that an
\* earlier verification opened.
InWindow(w, hash, t) == hash \in DOMAIN w /\ t < w[hash] + DedupWindowSeconds

\* The windows after a verification of the blob at time t.
Opened(w, hash, t) == IF InWindow(w, hash, t) THEN w ELSE (hash :> t) @@ w

\* A /settle whose blob's fingerprint was recorded by a /verify, the handler
\* call before it.
FollowsVerify(events, kind, hash) ==
    /\ kind = "settle"
    /\ \E i \in 1..Len(events) :
          events[i].kind = "verify" /\ events[i].hash = hash /\ ~events[i].dup

\* The event of one verification: the request, the clock, whether it fell in
\* an open window, the call that came before, the pipeline's result, the
\* response and what the settlement did.
Event(kind, c, up, w, v, settled) ==
    [kind |-> kind, c |-> c, hash |-> HashTransaction(Blob(c)), at |-> now, up |-> up,
     in_window |-> InWindow(w, HashTransaction(Blob(c)), now),
     follows_verify |-> FollowsVerify(log, kind, HashTransaction(Blob(c))),
     dup |-> v.dup, out |-> v.res, resp |-> VerifyResponse(v.res),
     sresp |-> settled.resp, eff |-> settled.eff]

NotSettled ==
    [resp |-> [responded |-> FALSE, success |-> FALSE, network |-> "", transaction |-> "",
               payer |-> << >>, error_reason |-> << >>],
     eff |-> NoSettlement]

\* POST /verify, or one slot of POST /verify/batch (verify_single_sync).
HandleVerify(kind, c, up) ==
    \E v \in {IF kind = "batch"
              THEN VerifyPaymentSync(dedup, VerifyRequest(c), now, RpcAnswers(up))
              ELSE VerifyPayment(dedup, VerifyRequest(c), now, RpcAnswers(up))} :
        /\ dedup' = v.store
        /\ log' = <<Event(kind, c, up, window, v, NotSettled)>>
        /\ window' = Opened(window, HashTransaction(Blob(c)), now)
        /\ batch' = << >>

\* A /settle that asks the dedup store again before settle_transaction.
HandleSettleChecksAgain(c, up, submit_ok) ==
    \E v \in {VerifyPayment(dedup, VerifyRequest(c), now, RpcAnswers(up))} :
    \E again \in {CheckAndMark(v.store, Blob(c), now)} :
    \E settled \in {Settle(VerifyRequest(c),
                           IF again.dup
                           THEN VerifyResponse(UnexpectedError("duplicate"))
                           ELSE VerifyResponse(v.res),
                           submit_ok)} :
        /\ dedup' = again.store
        /\ log' = <<Event("settle", c, up, window, v, settled)>>
        /\ window' = Opened(window, HashTransaction(Blob(c)), now)
        /\ batch' = << >>

\* POST /settle.
HandleSettle(c, up, submit_ok) ==
    \E v \in {VerifyPayment(dedup, VerifyRequest(c), now, RpcAnswers(up))} :
    \E settled \in {Settle(VerifyRequest(c), VerifyResponse(v.res), submit_ok)} :
        /\ dedup' = v.store
        /\ log' = <<Event("settle", c, up, window, v, settled)>>
        /\ window' = Opened(window, HashTransaction(Blob(c)), now)
        /\ batch' = << >>

\* The orders a pool can take n slots in.
Orders(n) == {p \in [1..n -> 1..n] : \A i, j \in 1..n : p[i] = p[j] => i = j}

\* verify_batch_parallel's slots, run (verify_single_sync) in the order the
\* pool takes them.  A panicking slot unwinds the pool's scope: with abort the
\* slots not yet taken are not run, without it they all are.
RECURSIVE RunSlots(_, _, _, _, _, _)
RunSlots(order, inputs, up, abort, store, w) ==
    IF order = << >> THEN [store |-> store, window |-> w, events |-> << >>]
    ELSE LET c == inputs[Head(order)]
             v == VerifyPaymentSync(store, VerifyRequest(c), now, RpcAnswers(up))
             opened == Opened(w, HashTransaction(Blob(c)), now)
             rest == IF v.res.err = "Panic" /\ abort
                     THEN [store |-> v.store, window |-> opened, events |-> << >>]
                     ELSE RunSlots(Tail(order), inputs, up, abort, v.store, opened)
         IN  [rest EXCEPT !.events = <<Event("batch", c, up, w, v, NotSettled)>> \o @]

\* par_iter().map().collect(): the response of input i lands at index i.
Collect(inputs, order, events) ==
    [i \in 1..Len(inputs) |-> events[CHOOSE k \in 1..Len(order) : order[k] = i].resp]

\* The body verify_batch answers with: nothing to do for an empty batch, the
\* collected responses, or the empty list when the blocking task panicked.
BatchBody(inputs, order, events) ==
    IF inputs = << >> THEN << >>
    ELSE IF \E k \in 1..Len(events) : events[k].out.err = "Panic" THEN << >>
    ELSE Collect(inputs, order, events)

\* POST /verify/batch.
HandleBatch(inputs, order, up, abort) ==
    \E run \in {RunSlots(order, inputs, up, abort, dedup, window)} :
        /\ dedup' = run.store
        /\ window' = run.window
        /\ log' = run.events
        /\ batch' = <<[inputs |-> inputs, order |-> order,
                       output |-> BatchBody(inputs, order, run.events)]>>

(***************************************************************************)
(* PipeSpec: one request, drawn with the state it arrives in, handled once.*)
(***************************************************************************)
PipeInit ==
    \E c \in Choices :
        /\ pending = <<c>>
        /\ now = c.now
        /\ dedup = IF c.marked = << >> THEN EmptyStore
                   ELSE (HashTransaction(Blob(c)) :> (c.now - c.marked[1]))
        /\ chain = c.chain
        /\ log = << >>
        /\ window = dedup
        /\ unit = << >>
        /\ calls = [w \in Workers |-> Idle]
        /\ batch = << >>
        /\ fx = NoSideEffects
        /\ cache = EmptyStore
        /\ lookups = << >>
        /\ hook = NoDelivery
        /\ sub = NoSubmission

PipeVerify ==
    /\ pending # << >>
    /\ \E up \in RpcUps, kind \in {"verify", "batch"} :
           HandleVerify(kind, pending[1], up)
    /\ pending' = << >>
    /\ UNCHANGED <<now, chain, unit, calls, sub, fx, cache, lookups, hook>>

PipeSettle ==
    /\ pending # << >>
    /\ \E up \in RpcUps, submit_ok \in BOOLEAN :
           HandleSettle(pending[1], up, submit_ok)
    /\ pending' = << >>
    /\ UNCHANGED <<now, chain, unit, calls, sub, fx, cache, lookups, hook>>

\* The verifier functions called on the request's instructions directly.
PipeUnit ==
    /\ pending # << >>
    /\ \E up \in RpcUps : unit' = <<UnitResults(pending[1], RpcAnswers(up))>>
    /\ pending' = << >>
    /\ UNCHANGED <<now, dedup, chain, log, window, calls, batch, sub, fx, cache,
                   lookups, hook>>

PipeNext == PipeVerify \/ PipeSettle \/ PipeUnit

PipeSpec == PipeInit /\ [][PipeNext]_vars

(***************************************************************************)
(* Spec: the server.  Handler calls run one after another; the clock       *)
(* advances and the dedup store is maintained between them.                *)
(***************************************************************************)
\* The requests clients send: scenario 1, the same transaction in a
\* byte-different blob, and an underpayment.
ServerChoices ==
    {Base, [Base EXCEPT !.trailing = 1], [Base EXCEPT !.amount = "999999"]}

ServerRpcUps == {<<TRUE, TRUE>>}

Init ==
    /\ now = 0
    /\ dedup = EmptyStore
    /\ chain = Base.chain
    /\ pending = << >>
    /\ log = << >>
    /\ window = EmptyStore
    /\ unit = << >>
    /\ calls = [w \in Workers |-> Idle]
    /\ batch = << >>
    /\ fx = NoSideEffects
    /\ cache = EmptyStore
    /\ lookups = << >>
    /\ hook = NoDelivery
    /\ sub = NoSubmission

Verify ==
    /\ \E c \in ServerChoices, up \in ServerRpcUps : HandleVerify("verify", c, up)
    /\ UNCHANGED <<now, chain, pending, unit, calls, sub, fx, cache, lookups, hook>>

\* POST /verify/batch with one or two requests; the two slots run in the
\* order given (both orders of a pair are sent).
VerifyBatch ==
    /\ \E inputs \in {<<c>> : c \in ServerChoices}
                      \cup {<<c1, c2>> : c1 \in ServerChoices, c2 \in ServerChoices},
          up \in ServerRpcUps :
          HandleBatch(inputs, [i \in 1..Len(inputs) |-> i], up, FALSE)
    /\ UNCHANGED <<now, chain, pending, unit, calls, sub, fx, cache, lookups, hook>>

SettleCall ==
    /\ \E c \in ServerChoices, up \in ServerRpcUps, submit_ok \in BOOLEAN :
           HandleSettle(c, up, submit_ok)
    /\ UNCHANGED <<now, chain, pending, unit, calls, sub, fx, cache, lookups, hook>>

\* The entries of the store whose time to live has not elapsed at time t.
LiveEntries(store, t) == {h \in DOMAIN store : t < store[h] + DedupWindowSeconds}

\* A second passes; entries whose time to live has elapsed are gone.
Tick ==
    /\ now < MaxTime
    /\ now' = now + 1
    /\ dedup' = [h \in LiveEntries(dedup, now + 1) |-> dedup[h]]
    /\ window' = [h \in LiveEntries(window, now + 1) |-> window[h]]
    /\ UNCHANGED <<chain, pending, log, unit, calls, batch, sub, fx, cache, lookups, hook>>

\* The cache's housekeeping: over capacity, an entry the eviction policy
\* picks is dropped.
DedupMaintenance ==
    /\ Cardinality(DOMAIN dedup) > DedupMaxEntries
    /\ \E h \in DOMAIN dedup :
          /\ dedup' = [k \in DOMAIN dedup \ {h} |-> dedup[k]]
          /\ window' = [k \in DOMAIN window \ {h} |-> window[k]]
    /\ UNCHANGED <<now, chain, pending, log, unit, calls, batch, sub, fx, cache,
                   lookups, hook>>

Next == Verify \/ VerifyBatch \/ SettleCall \/ Tick \/ DedupMaintenance

Spec == Init /\ [][Next]_vars

(***************************************************************************)
(* BatchSpec: one POST /verify/batch call on a fresh server.               *)
(***************************************************************************)
\* The longest batch sent.
MaxBatch == 3

\* The requests of a batch: scenario 1, an underpayment, and scenario 1 with
\* an account index beyond the account table in its first instruction.
BatchChoices ==
    {Base, [Base EXCEPT !.amount = "999999"], [Base EXCEPT !.limit = "out_of_range_account"]}

BatchInit ==
    /\ \E n \in 0..MaxBatch : pending \in [1..n -> BatchChoices]
    /\ now = 0
    /\ dedup = EmptyStore
    /\ chain = Base.chain
    /\ log = << >>
    /\ window = EmptyStore
    /\ unit = << >>
    /\ calls = [w \in Workers |-> Idle]
    /\ batch = << >>
    /\ fx = NoSideEffects
    /\ cache = EmptyStore
    /\ lookups = << >>
    /\ hook = NoDelivery
    /\ sub = NoSubmission

BatchRun ==
    /\ batch = << >>
    /\ \E order \in Orders(Len(pending)), up \in ServerRpcUps, abort \in BOOLEAN :
           HandleBatch(pending, order, up, abort)
    /\ UNCHANGED <<now, chain, pending, unit, calls, sub, fx, cache, lookups, hook>>

BatchNext == BatchRun

BatchSpec == BatchInit /\ [][BatchNext]_vars

(***************************************************************************)
(* The chain submitter (solana/submitter.rs), one statement at a time.     *)
(***************************************************************************)
\* The most attempts a caller asks for (settle_transaction asks for 3).
MaxAttempts == 4

\* timeout_seconds (settle_transaction passes 30).
TimeoutSeconds == 1

\* Time is counted in polling intervals of 500 ms.
TicksPerSecond == 2

\* What get_signature_status can answer: Ok(Some(Ok)), Ok(Some(Err)),
\* Ok(None), Err.
Statuses == {"confirmed", "status_error", "pending", "rpc_error"}

\* What it can answer for a transaction the chain has, or has not yet,
\* confirmed successfully.
StatusesWhen(landed) ==
    IF landed THEN Statuses \ {"status_error", "pending"}
    ELSE Statuses \ {"confirmed"}

\* A poll loop that gives up on an RPC error.
AfterPollFailFast(status) ==
    CASE status = "confirmed" -> Ok("signature")
      [] status = "status_error" -> Err("Transaction failed")
      [] status = "pending" -> Ok("sleep")
      [] status = "rpc_error" -> Err("rpc_error")

\* The match on get_signature_status in submit_and_confirm_transaction: the
\* result the attempt returns with, or Ok("sleep") to wait and poll again.
AfterPoll(status) ==
    CASE status = "confirmed" -> Ok("signature")
      [] status = "status_error" -> Err("Transaction failed")
      [] status = "pending" -> Ok("sleep")
      [] status = "rpc_error" -> Ok("sleep")

\* A backoff that grows by one second per attempt.
BackoffLinear(attempt) == attempt

\* The seconds slept after failed attempt number attempt: 2u64.pow(attempt - 1).
Backoff(attempt) == 2 ^ (attempt - 1)

\* for attempt in 1..=max_retries, and the return after the loop.
SubForHead ==
    /\ sub.pc = "for"
    /\ sub' = IF sub.attempt <= sub.max_retries
              THEN [sub EXCEPT !.pc = "send", !.last = "", !.polls = 0, !.elapsed = 0,
                               !.ret = << >>]
              ELSE [sub EXCEPT !.pc = "done",
                               !.result = IF sub.last_error # << >>
                                          THEN <<Err(sub.last_error[1])>>
                                          ELSE <<Err("All retry attempts failed")>>]
    /\ UNCHANGED <<now, dedup, chain, pending, log, window, unit, calls, batch, fx,
                   cache, lookups, hook>>

\* rpc_client.send_transaction(transaction), and the start of the clock.
SubSend ==
    /\ sub.pc = "send"
    /\ \E sent_ok \in BOOLEAN :
          sub' = IF sent_ok
                 THEN [sub EXCEPT !.pc = "check", !.last = "send_ok", !.elapsed = 0,
                                  !.sent = Append(@, sub.transaction),
                                  !.accepted = TRUE]
                 ELSE [sub EXCEPT !.pc = "match", !.last = "send_failed",
                                  !.sent = Append(@, sub.transaction),
                                  !.ret = <<Err("Failed to send transaction")>>]
    /\ UNCHANGED <<now, dedup, chain, pending, log, window, unit, calls, batch, fx,
                   cache, lookups, hook>>

\* A timeout check that starts the wait over instead of ending the attempt.
SubCheckRestartsWait ==
    /\ sub.pc = "check"
    /\ sub' = IF sub.elapsed > TicksPerSecond * TimeoutSeconds
              THEN [sub EXCEPT !.pc = "poll", !.elapsed = 0, !.polls = 0]
              ELSE [sub EXCEPT !.pc = "poll"]
    /\ UNCHANGED <<now, dedup, chain, pending, log, window, unit, calls, batch, fx,
                   cache, lookups, hook>>

\* if start.elapsed() > timeout, at the top of the poll loop.
SubCheck ==
    /\ sub.pc = "check"
    /\ sub' = IF sub.elapsed > TicksPerSecond * TimeoutSeconds
              THEN [sub EXCEPT !.pc = "match", !.last = "timeout",
                               !.ret = <<Err("Transaction confirmation timed out")>>]
              ELSE [sub EXCEPT !.pc = "poll"]
    /\ UNCHANGED <<now, dedup, chain, pending, log, window, unit, calls, batch, fx,
                   cache, lookups, hook>>

\* rpc_client.get_signature_status(&signature); the call itself may take
\* time.
SubPoll ==
    /\ sub.pc = "poll"
    /\ \E status \in StatusesWhen(sub.landed), took \in {0, 1} :
          sub' = IF AfterPoll(status) = Ok("sleep")
                 THEN [sub EXCEPT !.pc = "sleep", !.last = status, !.polls = @ + 1,
                                  !.elapsed = @ + took]
                 ELSE [sub EXCEPT !.pc = "match", !.last = status, !.polls = @ + 1,
                                  !.elapsed = @ + took, !.ret = <<AfterPoll(status)>>]
    /\ UNCHANGED <<now, dedup, chain, pending, log, window, unit, calls, batch, fx,
                   cache, lookups, hook>>

\* tokio::time::sleep(Duration::from_millis(500))
SubSleep ==
    /\ sub.pc = "sleep"
    /\ sub' = [sub EXCEPT !.pc = "check", !.last = "sleep_500ms", !.elapsed = @ + 1]
    /\ UNCHANGED <<now, dedup, chain, pending, log, window, unit, calls, batch, fx,
                   cache, lookups, hook>>

\* The match on the attempt's result in submit_transaction_with_retries.
SubMatch ==
    /\ sub.pc = "match"
    /\ sub' = IF sub.ret[1].ok
              THEN [sub EXCEPT !.pc = "done", !.attempts = Append(@, sub.ret[1]),
                               !.result = sub.ret]
              ELSE IF sub.attempt < sub.max_retries
              THEN [sub EXCEPT !.pc = "backoff", !.attempts = Append(@, sub.ret[1]),
                               !.last_error = <<sub.ret[1].err>>]
              ELSE [sub EXCEPT !.pc = "for", !.attempts = Append(@, sub.ret[1]),
                               !.last_error = <<sub.ret[1].err>>, !.attempt = @ + 1]
    /\ UNCHANGED <<now, dedup, chain, pending, log, window, unit, calls, batch, fx,
                   cache, lookups, hook>>

\* tokio::time::sleep(backoff), then the next attempt.
SubBackoff ==
    /\ sub.pc = "backoff"
    /\ sub' = [sub EXCEPT !.pc = "for", !.backoffs = Append(@, Backoff(sub.attempt)),
                          !.attempt = @ + 1]
    /\ UNCHANGED <<now, dedup, chain, pending, log, window, unit, calls, batch, fx,
                   cache, lookups, hook>>

\* The chain confirms the transaction an earlier send_transaction handed
\* over, at any moment of the call; get_signature_status reports it from then
\* on.
ChainConfirms ==
    /\ sub.pc \notin {"idle", "done"}
    /\ sub.accepted
    /\ ~sub.landed
    /\ sub' = [sub EXCEPT !.landed = TRUE]
    /\ UNCHANGED <<now, dedup, chain, pending, log, window, unit, calls, batch, fx,
                   cache, lookups, hook>>

\* One call of submit_transaction_with_retries, with any max_retries up to
\* MaxAttempts.
SubmitInit ==
    /\ now = 0
    /\ dedup = EmptyStore
    /\ chain = { }
    /\ pending = << >>
    /\ log = << >>
    /\ window = EmptyStore
    /\ unit = << >>
    /\ calls = [w \in Workers |-> Idle]
    /\ batch = << >>
    /\ fx = NoSideEffects
    /\ cache = EmptyStore
    /\ lookups = << >>
    /\ hook = NoDelivery
    /\ \E max_retries \in 0..MaxAttempts, transaction \in {"signed-1", "signed-2"} :
          sub = [NoSubmission EXCEPT !.pc = "for", !.attempt = 1,
                                     !.max_retries = max_retries,
                                     !.transaction = transaction]

SubmitNext ==
    \/ SubForHead \/ SubSend \/ SubCheck \/ SubPoll \/ SubSleep \/ SubMatch \/ SubBackoff
    \/ ChainConfirms

SubmitSpec == SubmitInit /\ [][SubmitNext]_vars

\* The same call, with every step that can be taken eventually taken: each
\* RPC call returns and each sleep ends.
SubmitFairSpec == SubmitInit /\ [][SubmitNext]_vars /\ WF_vars(SubmitNext)

(***************************************************************************)
(* HookSpec: one send_webhook call (webhooks.rs), one statement at a time. *)
(***************************************************************************)
\* The largest retry_attempts configured.
MaxRetryAttempts == 3

\* What a POST to the endpoint can come to: a 2xx response, another status,
\* or no response (connection error, timeout).
PostOutcomes == {"2xx", "non_2xx", "transport_error"}

\* serde_json::to_string(payload)
PayloadJson(payload) == <<"json", payload>>

\* generate_signature: the hex HMAC-SHA256 of the body under the secret.
GenerateSignature(secret, payload_json) == <<"hmac-sha256", secret, payload_json>>

\* A request that counts any HTTP response as delivered.
SendWebhookRequestAnyStatus(outcome) ==
    IF outcome = "transport_error" THEN Err(outcome) ELSE Ok(TRUE)

\* send_webhook_request: Ok on a 2xx status, Err on any other status and when
\* the request itself fails.
SendWebhookRequest(outcome) ==
    IF outcome = "2xx" THEN Ok(TRUE) ELSE Err(outcome)

\* The milliseconds slept after failed attempt number attempt.
BackoffMs(attempt) == 100 * 2 ^ (attempt - 1)

\* if !config.enabled { return Ok(()) }, then the body and its signature.
HookEnter ==
    /\ hook.pc = "enter"
    /\ hook' = IF ~hook.enabled
               THEN [hook EXCEPT !.pc = "done", !.result = <<Ok(TRUE)>>]
               ELSE [hook EXCEPT !.pc = "for", !.attempt = 1]
    /\ UNCHANGED <<now, dedup, chain, pending, log, window, unit, calls, batch, sub, fx,
                   cache, lookups>>

\* for attempt in 1..=config.retry_attempts, and the return after the loop.
HookForHead ==
    /\ hook.pc = "for"
    /\ hook' = IF hook.attempt <= hook.retry_attempts
               THEN [hook EXCEPT !.pc = "post"]
               ELSE [hook EXCEPT !.pc = "done",
                                 !.result = IF hook.last_error # << >>
                                            THEN <<Err(hook.last_error[1])>>
                                            ELSE <<Ok(TRUE)>>]
    /\ UNCHANGED <<now, dedup, chain, pending, log, window, unit, calls, batch, sub, fx,
                   cache, lookups>>

\* send_webhook_request(&client, &config.url, &payload_json, &signature) and
\* the match on its result.
HookPost ==
    /\ hook.pc = "post"
    /\ \E outcome \in PostOutcomes :
          LET payload_json == PayloadJson(hook.payload)
              post == [body |-> payload_json,
                       signature |-> GenerateSignature(hook.secret, payload_json)]
              sent == [hook EXCEPT !.posts = Append(@, post),
                                   !.outcomes = Append(@, outcome)]
          IN  hook' = IF SendWebhookRequest(outcome).ok
                      THEN [sent EXCEPT !.pc = "done", !.result = <<Ok(TRUE)>>]
                      ELSE IF hook.attempt < hook.retry_attempts
                      THEN [sent EXCEPT !.pc = "backoff", !.last_error = <<outcome>>]
                      ELSE [sent EXCEPT !.pc = "for", !.last_error = <<outcome>>,
                                        !.attempt = @ + 1]
    /\ UNCHANGED <<now, dedup, chain, pending, log, window, unit, calls, batch, sub, fx,
                   cache, lookups>>

\* tokio::time::sleep(Duration::from_millis(backoff_ms)), then the next
\* attempt.
HookBackoff ==
    /\ hook.pc = "backoff"
    /\ hook' = [hook EXCEPT !.pc = "for", !.sleeps = Append(@, BackoffMs(hook.attempt)),
                            !.attempt = @ + 1]
    /\ UNCHANGED <<now, dedup, chain, pending, log, window, unit, calls, batch, sub, fx,
                   cache, lookups>>

\* One call of send_webhook, for a configuration that is enabled or not and
\* any retry_attempts up to MaxRetryAttempts.
HookInit ==
    /\ now = 0
    /\ dedup = EmptyStore
    /\ chain = { }
    /\ pending = << >>
    /\ log = << >>
    /\ window = EmptyStore
    /\ unit = << >>
    /\ calls = [w \in Workers |-> Idle]
    /\ batch = << >>
    /\ fx = NoSideEffects
    /\ cache = EmptyStore
    /\ lookups = << >>
    /\ sub = NoSubmission
    /\ \E enabled \in BOOLEAN, retry_attempts \in 0..MaxRetryAttempts,
          payload \in {"verification.success", "settlement.failure"} :
          hook = [NoDelivery EXCEPT !.pc = "enter", !.enabled = enabled,
                                    !.retry_attempts = retry_attempts,
                                    !.secret = "webhook-secret", !.payload = payload]

HookNext == HookEnter \/ HookForHead \/ HookPost \/ HookBackoff

HookSpec == HookInit /\ [][HookNext]_vars

(***************************************************************************)
(* SignSpec: sign_transaction_as_fee_payer applied to a transaction with   *)
(* any signature list.                                                     *)
(***************************************************************************)
\* The longest signature list of a transaction signed.
MaxSignatures == 3

\* message.serialize()
SerializeMessage(message) == <<"bincode", message>>

\* Keypair::sign_message
SignMessage(keypair, bytes) == <<"ed25519", keypair, bytes>>

\* A signing that puts the fee payer's signature in front of the list.
SignTransactionInFront(transaction, fee_payer) ==
    LET signature == SignMessage(fee_payer, SerializeMessage(transaction.message))
    IN  [transaction EXCEPT !.signatures = <<signature>> \o @]

\* sign_transaction_as_fee_payer
SignTransactionAsFeePayer(transaction, fee_payer) ==
    LET signature == SignMessage(fee_payer, SerializeMessage(transaction.message))
    IN  IF transaction.signatures = << >>
        THEN [transaction EXCEPT !.signatures = Append(@, signature)]
        ELSE [transaction EXCEPT !.signatures = [@ EXCEPT ![1] = signature]]

\* The signatures a decoded transaction carries: the empty placeholder and
\* signatures of clients.
SignatureChoices == {"none", "client-signature", "cosigner-signature"}

\* The signature lists of up to MaxSignatures entries.
SignatureLists == UNION {[1..n -> SignatureChoices] : n \in 0..MaxSignatures}

SignInit ==
    /\ now = 0
    /\ dedup = EmptyStore
    /\ chain = { }
    /\ log = << >>
    /\ window = EmptyStore
    /\ unit = << >>
    /\ calls = [w \in Workers |-> Idle]
    /\ batch = << >>
    /\ fx = NoSideEffects
    /\ cache = EmptyStore
    /\ lookups = << >>
    /\ hook = NoDelivery
    /\ sub = NoSubmission
    /\ \E signatures \in SignatureLists, c \in {Base, [Base EXCEPT !.shape = "4"]} :
          pending = <<[Transaction(c) EXCEPT !.signatures = signatures]>>

\* sign_transaction_as_fee_payer(&mut transaction, &fee_payer)
SignRun ==
    /\ pending # << >>
    /\ \E fee_payer \in {"fee-payer-keypair"} :
          unit' = <<[before |-> pending[1], fee_payer |-> fee_payer,
                     after |-> SignTransactionAsFeePayer(pending[1], fee_payer)]>>
    /\ pending' = << >>
    /\ UNCHANGED <<now, dedup, chain, log, window, calls, batch, sub, fx, cache, lookups,
                   hook>>

SignNext == SignRun

SignSpec == SignInit /\ [][SignNext]_vars

(***************************************************************************)
(* FxSpec: /verify and /settle calls with their side effects: the audit    *)
(* events sent to the writer task and the webhook deliveries spawned.      *)
(***************************************************************************)
\* The model stops taking requests once this many audit events or webhook
\* deliveries are outstanding.
MaxPending == 1

\* WEBHOOK_RETRY_ATTEMPTS
WebhookRetryAttempts == 3

\* AuditLogger::log: sender.send(event) on the unbounded channel.
AuditLog(audit, event) == Append(audit, event)

\* tokio::spawn(async move { send_webhook(..).await }) when a webhook is
\* configured: one more delivery, at its first attempt.
SpawnWebhook(side, event) ==
    IF side.webhook
    THEN [side EXCEPT !.hooks = [@ EXCEPT ![1] = @ + 1], !.spawned = Append(@, event)]
    ELSE side

\* An audit_logger.log_* call of a handler.
Logged(side, event) ==
    [side EXCEPT !.audit = AuditLog(@, event), !.logged = Append(@, event)]

\* counter.with_label_values(labels).inc()
Counted(side, counter, labels) ==
    [side EXCEPT !.counted = Append(@, <<counter>> \o labels)]

\* The side effects of the verify handler: the request is counted and
\* logged, then the outcome is counted, logged and notified; a panicking
\* verification unwinds after the first.
VerifySideEffects(side, res) ==
    LET entered == [side EXCEPT !.spawned = << >>, !.logged = << >>, !.counted = << >>]
        requested == Logged(Counted(entered, "verify_requests", <<"network">>),
                            "verification_requested")
    IN  IF res.err = "Panic" THEN requested
        ELSE IF res.ok
        THEN SpawnWebhook(Logged(Counted(requested, "verification_success", <<"network">>),
                                 "verification_success"),
                          "verification.success")
        ELSE SpawnWebhook(Logged(Counted(requested, "verification_failure",
                                         <<"network", AsStr(res.err)>>),
                                 "verification_failed"),
                          "verification.failure")

\* The side effects of the settle handler: the attempt is counted, the
\* verification it runs has its own, and when the verification accepted the
\* settlement's outcome is counted and notified.
SettleSideEffects(side, res, settled) ==
    LET verified == VerifySideEffects(side, res)
        attempted == [verified EXCEPT
                         !.counted = <<<<"settle_requests", "network", "attempt">>>> \o @]
    IN  IF ~settled.resp.responded \/ ~VerifyResponse(res).is_valid THEN attempted
        ELSE IF settled.resp.success
        THEN SpawnWebhook(Counted(attempted, "settle_requests", <<"network", "success">>),
                          "settlement.success")
        ELSE SpawnWebhook(Counted(attempted, "settle_requests", <<"network", "failure">>),
                          "settlement.failure")

\* The side effects of one batch slot (verify_single_sync): the request is
\* counted, then the outcome is counted and logged.
SlotSideEffects(side, res) ==
    LET requested == Counted(side, "verify_requests", <<"network">>)
    IN  IF res.err = "Panic" THEN requested
        ELSE IF res.ok
        THEN Logged(Counted(requested, "verification_success", <<"network">>),
                    "verification_success")
        ELSE Logged(Counted(requested, "verification_failure",
                            <<"network", AsStr(res.err)>>),
                    "verification_failed")

\* The side effects of a batch: those of its slots, in the order they ran.
RECURSIVE BatchSideEffects(_, _)
BatchSideEffects(side, events) ==
    IF events = << >> THEN side
    ELSE BatchSideEffects(SlotSideEffects(side, Head(events).out), Tail(events))

\* Deliveries started and not finished.
HooksInFlight(side) == side.hooks[1] + side.hooks[2] + side.hooks[3]

FxChoices == {Base, [Base EXCEPT !.amount = "999999"]}

FxInit ==
    /\ now = 0
    /\ dedup = EmptyStore
    /\ chain = Base.chain
    /\ pending = << >>
    /\ log = << >>
    /\ window = EmptyStore
    /\ unit = << >>
    /\ calls = [w \in Workers |-> Idle]
    /\ batch = << >>
    /\ sub = NoSubmission
    /\ \E webhook \in BOOLEAN : fx = [NoSideEffects EXCEPT !.webhook = webhook]
    /\ cache = EmptyStore
    /\ lookups = << >>
    /\ hook = NoDelivery

\* POST /verify
FxVerify ==
    /\ Len(fx.audit) <= MaxPending
    /\ HooksInFlight(fx) <= MaxPending
    /\ \E c \in FxChoices, up \in ServerRpcUps :
          /\ HandleVerify("verify", c, up)
          /\ fx' = VerifySideEffects(fx, log'[1].out)
    /\ UNCHANGED <<now, chain, pending, unit, calls, sub, cache, lookups, hook>>

\* POST /verify/batch with one request.
FxBatch ==
    /\ Len(fx.audit) <= MaxPending
    /\ HooksInFlight(fx) <= MaxPending
    /\ \E c \in FxChoices, up \in ServerRpcUps :
          /\ HandleBatch(<<c>>, <<1>>, up, FALSE)
          /\ fx' = BatchSideEffects([fx EXCEPT !.spawned = << >>, !.logged = << >>,
                                              !.counted = << >>], log')
    /\ UNCHANGED <<now, chain, pending, unit, calls, sub, cache, lookups, hook>>

\* POST /settle
FxSettle ==
    /\ Len(fx.audit) <= MaxPending
    /\ HooksInFlight(fx) <= MaxPending
    /\ \E c \in FxChoices, up \in ServerRpcUps, submit_ok \in BOOLEAN :
          /\ HandleSettle(c, up, submit_ok)
          /\ fx' = SettleSideEffects(fx, log'[1].out,
                                     [resp |-> log'[1].sresp, eff |-> log'[1].eff])
    /\ UNCHANGED <<now, chain, pending, unit, calls, sub, cache, lookups, hook>>

\* The audit writer task takes the next event off the channel and writes it.
AuditWrite ==
    /\ fx.audit # << >>
    /\ fx' = [fx EXCEPT !.audit = Tail(@)]
    /\ UNCHANGED <<now, dedup, chain, pending, log, window, unit, calls, batch, sub,
                   cache, lookups, hook>>

\* A delivery attempt whose final failure takes the payment's mark back.
WebhookAttemptUnmarks ==
    /\ \E attempt \in 1..WebhookRetryAttempts, delivered \in BOOLEAN :
          /\ fx.hooks[attempt] > 0
          /\ fx' = IF delivered \/ attempt = WebhookRetryAttempts
                   THEN [fx EXCEPT !.hooks = [@ EXCEPT ![attempt] = @ - 1]]
                   ELSE [fx EXCEPT !.hooks = [@ EXCEPT ![attempt] = @ - 1,
                                                       ![attempt + 1] = @ + 1]]
          /\ dedup' = IF ~delivered /\ attempt = WebhookRetryAttempts
                      THEN EmptyStore ELSE dedup
    /\ UNCHANGED <<now, chain, pending, log, window, unit, calls, batch, sub, cache,
                   lookups, hook>>

\* One attempt of send_webhook for one delivery in flight: a 2xx answer ends
\* it, a failure moves it to the next attempt (after the backoff) or, at the
\* last attempt, drops it.
WebhookAttempt ==
    /\ \E attempt \in 1..WebhookRetryAttempts, delivered \in BOOLEAN :
          /\ fx.hooks[attempt] > 0
          /\ fx' = IF delivered \/ attempt = WebhookRetryAttempts
                   THEN [fx EXCEPT !.hooks = [@ EXCEPT ![attempt] = @ - 1]]
                   ELSE [fx EXCEPT !.hooks = [@ EXCEPT ![attempt] = @ - 1,
                                                       ![attempt + 1] = @ + 1]]
          /\ dedup' = dedup
    /\ UNCHANGED <<now, chain, pending, log, window, unit, calls, batch, sub, cache,
                   lookups, hook>>

FxNext == FxVerify \/ FxBatch \/ FxSettle \/ AuditWrite \/ WebhookAttempt

FxSpec == FxInit /\ [][FxNext]_vars

(***************************************************************************)
(* CacheSpec: the account cache.  check_account_exists is called on its    *)
(* own, /verify requests are handled, the clock advances and the cache is  *)
(* kept within its capacity.                                               *)
(***************************************************************************)
\* Account cache entries live this long.
CacheTtlSeconds == 2

\* The capacity of the account cache.
CacheMaxEntries == 1

\* A get that still finds an entry at the instant its time to live elapses.
CacheGetThroughLimit(store, pubkey, t) ==
    pubkey \in DOMAIN store /\ t <= store[pubkey] + CacheTtlSeconds

\* AccountCache::get: an entry is found until its time to live has elapsed.
CacheGet(store, pubkey, t) == pubkey \in DOMAIN store /\ t < store[pubkey] + CacheTtlSeconds

\* AccountCache::insert
CacheInsert(store, pubkey, t) == (pubkey :> t) @@ store

\* A check_account_exists that remembers a failed lookup as well.
CheckAccountExistsNegativeCaching(found, store, pubkey, t) ==
    IF CacheGet(store, pubkey, t)
    THEN [ret |-> TRUE, rpc |-> << >>, cache |-> store]
    ELSE [ret |-> pubkey \in found, rpc |-> <<pubkey>>, cache |-> CacheInsert(store, pubkey, t)]

\* check_account_exists; found holds the keys get_account answers Ok for.
CheckAccountExists(found, store, pubkey, t) ==
    IF CacheGet(store, pubkey, t)
    THEN [ret |-> TRUE, rpc |-> << >>, cache |-> store]
    ELSE IF pubkey \in found
    THEN [ret |-> TRUE, rpc |-> <<pubkey>>, cache |-> CacheInsert(store, pubkey, t)]
    ELSE [ret |-> FALSE, rpc |-> <<pubkey>>, cache |-> store]

\* The accounts asked about: the two of scenario 1 and another token
\* account.
CacheKeys == {SourceAta, DestAta, "OtherTokenAccount"}

\* The request verified: scenario 1.
CacheChoices == {Base}

CacheInit ==
    /\ now = 0
    /\ dedup = EmptyStore
    /\ chain = Base.chain \cup {"OtherTokenAccount"}
    /\ pending = << >>
    /\ log = << >>
    /\ window = EmptyStore
    /\ unit = << >>
    /\ calls = [w \in Workers |-> Idle]
    /\ batch = << >>
    /\ fx = NoSideEffects
    /\ cache = EmptyStore
    /\ lookups = << >>
    /\ hook = NoDelivery
    /\ sub = NoSubmission

\* check_account_exists(rpc_client, cache, pubkey), with the RPC endpoint
\* answering or not.
CacheLookup ==
    /\ \E pubkey \in CacheKeys, up \in BOOLEAN :
          LET r == CheckAccountExists(IF up THEN chain ELSE { }, cache, pubkey, now)
          IN  /\ cache' = r.cache
              /\ lookups' = <<[key |-> pubkey, up |-> up, ret |-> r.ret, rpc |-> r.rpc,
                                retry |-> /\ lookups # << >>
                                          /\ lookups[1].key = pubkey
                                          /\ ~lookups[1].ret]>>
    /\ UNCHANGED <<now, dedup, chain, pending, log, window, unit, calls, batch, sub, fx,
                   hook>>

\* POST /verify: verify_payment is given the RPC client and the dedup store,
\* and verify_transfer_instruction calls get_account on the client.
CacheVerify ==
    /\ \E c \in CacheChoices, up \in ServerRpcUps : HandleVerify("verify", c, up)
    /\ UNCHANGED <<now, chain, pending, unit, calls, sub, fx, cache, lookups, hook>>

\* The cache's housekeeping: over capacity, an entry the eviction policy
\* picks is dropped.
CacheMaintenance ==
    /\ Cardinality(DOMAIN cache) > CacheMaxEntries
    /\ \E k \in DOMAIN cache : cache' = [j \in DOMAIN cache \ {k} |-> cache[j]]
    /\ UNCHANGED <<now, dedup, chain, pending, log, window, unit, calls, batch, sub, fx,
                   lookups, hook>>

CacheNext == CacheLookup \/ CacheVerify \/ CacheMaintenance \/ Tick

CacheSpec == CacheInit /\ [][CacheNext]_vars

(***************************************************************************)
(* ConcSpec: check_and_mark calls running concurrently on worker threads   *)
(* (tokio workers, the rayon pool of the batch endpoint).  A call is a     *)
(* Cache::get followed, when nothing was found, by a Cache::insert; each   *)
(* of the two is one step, and other calls' steps may run in between.      *)
(***************************************************************************)
\* The blobs the concurrent callers carry.
ConcChoices == {Base, [Base EXCEPT !.trailing = 1]}

ConcInit ==
    /\ now = 0
    /\ dedup = EmptyStore
    /\ chain = Base.chain
    /\ pending = << >>
    /\ log = << >>
    /\ window = EmptyStore
    /\ unit = << >>
    /\ calls = [w \in Workers |-> Idle]
    /\ batch = << >>
    /\ fx = NoSideEffects
    /\ cache = EmptyStore
    /\ lookups = << >>
    /\ hook = NoDelivery
    /\ sub = NoSubmission

\* A worker enters check_and_mark(transaction_data).
CamStart ==
    /\ \E w \in Workers, c \in ConcChoices :
          /\ calls[w].pc = "idle"
          /\ calls' = [calls EXCEPT ![w] = [pc |-> "get", c |-> <<c>>,
                                            data |-> <<Blob(c)>>, ret |-> << >>,
                                            settled |-> << >>]]
    /\ UNCHANGED <<now, dedup, chain, pending, log, window, unit, batch, sub, fx, cache,
                   lookups, hook>>

\* self.seen.get(&hash): found returns true, not found goes on to the insert.
CamGet ==
    /\ \E w \in Workers :
          /\ calls[w].pc = "get"
          /\ calls' = [calls EXCEPT ![w] =
                 IF DedupGet(dedup, HashTransaction(calls[w].data[1]), now)
                 THEN [@ EXCEPT !.pc = "done", !.ret = <<TRUE>>]
                 ELSE [@ EXCEPT !.pc = "insert"]]
    /\ UNCHANGED <<now, dedup, chain, pending, log, window, unit, batch, sub, fx, cache,
                   lookups, hook>>

\* self.seen.insert(hash, ()), then return false.
CamInsert ==
    /\ \E w \in Workers :
          /\ calls[w].pc = "insert"
          /\ dedup' = DedupInsert(dedup, HashTransaction(calls[w].data[1]), now)
          /\ calls' = [calls EXCEPT ![w] = [@ EXCEPT !.pc = "done", !.ret = <<FALSE>>]]
    /\ UNCHANGED <<now, chain, pending, log, window, unit, batch, sub, fx, cache,
                   lookups, hook>>

\* A /settle handler whose check_and_mark returned runs the rest of the
\* verification and, when it accepted, settle_transaction.
SettleAfterMark ==
    /\ \E w \in Workers, submit_ok \in BOOLEAN :
          /\ calls[w].pc = "done"
          /\ \E res \in {VerifyPaymentSteps(VerifyRequest(calls[w].c[1]), calls[w].ret[1],
                                            now, RpcAnswers(<<TRUE, TRUE>>))} :
                calls' = [calls EXCEPT ![w] =
                    [@ EXCEPT !.pc = "settled",
                              !.settled = <<Settle(VerifyRequest(calls[w].c[1]),
                                                   VerifyResponse(res), submit_ok)>>]]
    /\ UNCHANGED <<now, dedup, chain, pending, log, window, unit, batch, sub, fx, cache,
                   lookups, hook>>

ConcNext == CamStart \/ CamGet \/ CamInsert \/ SettleAfterMark

ConcSpec == ConcInit /\ [][ConcNext]_vars

(***************************************************************************)
(* Properties.                                                             *)
(***************************************************************************)
\* The verifications of the latest handler call.
Events == {log[i] : i \in 1..Len(log)}

Rejected(e) == e.resp.responded /\ ~e.resp.is_valid

Accepted(e) == e.resp.responded /\ e.resp.is_valid

\* The tag a verifier function's result carries on the wire, if it is an error
\* with one.
TagOf(res) == IF res.ok \/ res.err \in {"Panic", "absent"} THEN "" ELSE AsStr(res.err)

TagFeePayerIncluded ==
    "invalid_exact_svm_payload_transaction_fee_payer_included_in_instruction_accounts"

TagFeePayerTransferring ==
    "invalid_exact_svm_payload_transaction_fee_payer_transferring_funds"

\* C1: a verification of a blob that falls inside the dedup window an earlier
\* verification of the same blob opened, with no capacity eviction of its
\* fingerprint since, is rejected, whichever endpoint carries it; so only the
\* verification that opened the window can succeed.
OneSuccessPerWindow == \A e \in Events : e.in_window => Rejected(e)

\* A valid request verified again, one second after its window opened.
OneSuccessPerWindowWitness ==
    \E e \in Events :
        /\ e.in_window
        /\ e.c = Base
        /\ e.kind = "settle"
        /\ e.at = window[e.hash] + 1

\* C2: of the completed check_and_mark calls carrying the same data on a
\* store that did not contain it, exactly one returned false.
CheckAndMarkAtomic ==
    \A c \in ConcChoices :
        LET done == {w \in Workers : calls[w].ret # << >> /\ calls[w].data = <<Blob(c)>>}
        IN  done # { } => Cardinality({w \in done : calls[w].ret = <<FALSE>>}) = 1

\* C11: of the /settle calls carrying the same blob while its window is open,
\* running one after another or concurrently, at most one reaches signing
\* and submission.
OneSettlementPerWindow ==
    \A c \in ConcChoices :
        Cardinality({w \in Workers : /\ calls[w].data = <<Blob(c)>>
                                     /\ calls[w].settled # << >>
                                     /\ calls[w].settled[1].eff.sent}) <= 1

\* The steps of the pipeline before the fee-payer scan all pass.
ReachesFeePayerScan(e) ==
    LET request == VerifyRequest(e.c)
        payload == request.payment_payload
        requirements == request.payment_requirements
        decoded == DecodeTransactionFromBase64(payload.transaction)
        message == decoded.val.message
    IN  /\ ~e.dup
        /\ ~IsExpired(payload.timestamp, e.at)
        /\ payload.scheme = "exact" /\ requirements.scheme = "exact"
        /\ payload.network = requirements.network
        /\ requirements.network \in SupportedNetworks
        /\ decoded.ok
        /\ ParsePubkey(requirements.fee_payer).ok
        /\ VerifyInstructionCount(decoded.val).ok
        /\ VerifyComputeLimitInstruction(message.instructions[1], message).ok
        /\ VerifyComputePriceInstruction(message.instructions[2], message).ok

\* Some instruction of the request's transaction lists the fee payer's key.
ReferencesFeePayer(c) ==
    LET message == Transaction(c).message
    IN  \E i \in 1..Len(message.instructions) :
            \E j \in 1..Len(message.instructions[i].accounts) :
                /\ InRange(message, message.instructions[i].accounts[j])
                /\ KeyAt(message, message.instructions[i].accounts[j]) = c.fee_payer

\* C3: a request that passes the steps before the fee-payer scan and whose
\* instructions reference the fee payer is rejected with the
\* fee_payer_included_in_instruction_accounts tag, and no accepted
\* transaction references the fee payer.
FeePayerReferenceRejected ==
    \A e \in Events :
        /\ ReachesFeePayerScan(e) /\ ReferencesFeePayer(e.c)
              => Rejected(e) /\ e.resp.invalid_reason = <<TagFeePayerIncluded>>
        /\ Accepted(e) => ~ReferencesFeePayer(e.c)

\* Scenario 3: scenario 1 with the transfer authority set to the fee payer,
\* at any time and with or without trailing bytes.
Scenario3(c) ==
    c = [Base EXCEPT !.transfer = "authority_fee_payer", !.now = c.now,
                     !.trailing = c.trailing]

\* C4 (as amended): scenario 3 is rejected by the pipeline with the
\* fee_payer_included_in_instruction_accounts tag, the cross-instruction scan
\* running before the transfer check; verify_transfer_instruction called on
\* that transfer directly answers fee_payer_transferring_funds.
AuthorityFeePayerRejectedByScan ==
    /\ \A e \in Events :
          Scenario3(e.c) /\ ~e.dup
              => Rejected(e) /\ e.resp.invalid_reason = <<TagFeePayerIncluded>>
    /\ \A u \in {unit[i] : i \in 1..Len(unit)} :
          Scenario3(u.c) => TagOf(u.transfer) = TagFeePayerTransferring

\* Scenario 3 answered by POST /verify.
AuthorityFeePayerWitness ==
    \E e \in Events :
        /\ Scenario3(e.c) /\ ~e.dup /\ e.kind = "verify"
        /\ e.resp.invalid_reason = <<TagFeePayerIncluded>>

\* C4 as stated: the pipeline answers scenario 3 with the
\* fee_payer_transferring_funds tag.
AuthorityFeePayerTagTransferring ==
    \A e \in Events :
        Scenario3(e.c) /\ ~e.dup
            => Rejected(e) /\ e.resp.invalid_reason = <<TagFeePayerTransferring>>

\* The u64 a max_amount_required text denotes, by decimal name.
RequiredNumber(r) ==
    CASE r \in {"1000000", "+1000000", "01000000"} -> "1000000"
      [] r \in {"999999", "4295967296", "18446744073709551615"} -> r
      [] OTHER -> "none"

\* The request's transfer is a TransferChecked of a token program
\* (discriminator 12, at least 10 data bytes).
IsTransferChecked(c) ==
    /\ c.keys = "all"
    /\ c.transfer \notin {"wrong_program", "out_of_range_program", "plain_transfer",
                          "short_data"}

\* C5: on a token-program TransferChecked, verify_transfer_instruction answers
\* amount_mismatch whenever the instruction's amount is not the number
\* max_amount_required denotes (one short and one over included), and
\* neither it nor the pipeline succeeds unless the two are equal.
AmountMustEqual ==
    /\ \A u \in {unit[i] : i \in 1..Len(unit)} :
          /\ IsTransferChecked(u.c) /\ u.transfer.err # "absent"
             /\ u.c.amount # RequiredNumber(u.c.required)
                => TagOf(u.transfer) =
                       "invalid_exact_svm_payload_transaction_amount_mismatch"
          /\ u.transfer.ok => u.c.amount = RequiredNumber(u.c.required)
    /\ \A e \in Events : Accepted(e) => e.c.amount = RequiredNumber(e.c.required)

\* One unit short and one unit over, both turned away.
AmountMustEqualWitness ==
    /\ unit # << >>
    /\ unit[1].c.amount \in {"999999", "1000001"}
    /\ unit[1].c.required = "1000000"
    /\ unit[1].transfer.err = "AmountMismatch"

\* Whether the 8 little-endian bytes denote a price above 5_000_000.
AboveCeiling(b) ==
    \/ b[4] # 0 \/ b[5] # 0 \/ b[6] # 0 \/ b[7] # 0 \/ b[8] # 0
    \/ b[1] + 256 * b[2] + 65536 * b[3] > 5000000

\* C6: on a compute-budget instruction with discriminator 3 and 9 data bytes,
\* verify_compute_price_instruction answers compute_price_instruction_too_high
\* exactly when the price is above 5_000_000 and accepts otherwise; 0 and
\* 5_000_000 are accepted, 5_000_001 and the u64 maximum are not.
PriceCeiling ==
    \A u \in {unit[i] : i \in 1..Len(unit)} :
        u.c.keys = "all" /\ u.c.price.kind \in {"ok", "fee_payer_account"}
            => /\ AboveCeiling(u.c.price.bytes) <=>
                     TagOf(u.price) =
                       "invalid_exact_svm_payload_transaction_instructions_compute_price_instruction_too_high"
               /\ ~AboveCeiling(u.c.price.bytes) <=> u.price.ok
               /\ u.c.price.bytes \in {<<64, 75, 76, 0, 0, 0, 0, 0>>,
                                       <<0, 0, 0, 0, 0, 0, 0, 0>>} => u.price.ok
               /\ u.c.price.bytes \in {<<65, 75, 76, 0, 0, 0, 0, 0>>,
                                       <<255, 255, 255, 255, 255, 255, 255, 255>>}
                     => u.price.err = "ComputePriceTooHigh"

\* The price exactly at the ceiling, accepted.
PriceCeilingWitness ==
    /\ unit # << >>
    /\ unit[1].c.price = [kind |-> "ok", bytes |-> <<64, 75, 76, 0, 0, 0, 0, 0>>]
    /\ unit[1].price.ok

\* The key the request's transfer names as destination (account position 2).
DestinationOf(c) ==
    KeyAt(Transaction(c).message, TransferInstruction(c.transfer, c.amount).accounts[3])

\* The destination is the associated token address of pay_to under asset:
\* DestAta is the one of (PayTo, Mint), and no key of the account table is
\* the one of another pair.
DestinationIsDerived(c) ==
    c.pay_to = PayTo /\ c.asset = Mint /\ DestinationOf(c) = DestAta

\* The transfer passes the program, discriminator, amount, account-count and
\* authority checks.
PassesAuthorityCheck(c) ==
    /\ c.keys = "all"
    /\ c.transfer \in {"ok", "token_2022", "source_fee_payer", "extra_fee_payer",
                       "wrong_destination", "destination_is_wallet"}
    /\ c.amount = RequiredNumber(c.required)
    /\ c.fee_payer \in {FeePayer, "OtherWallet"}

\* C7: nothing succeeds unless the transfer's destination is the associated
\* token address of pay_to under asset, and a transfer that passed the
\* program, discriminator, amount and authority checks with another
\* destination is answered transfer_to_incorrect_ata.
DestinationMustBeAta ==
    /\ \A e \in Events : Accepted(e) => DestinationIsDerived(e.c)
    /\ \A u \in {unit[i] : i \in 1..Len(unit)} :
          /\ u.transfer.ok => DestinationIsDerived(u.c)
          /\ PassesAuthorityCheck(u.c) /\ ~DestinationIsDerived(u.c)
                => TagOf(u.transfer) =
                       "invalid_exact_svm_payload_transaction_transfer_to_incorrect_ata"

\* A transfer to the payee's wallet instead of its token account.
DestinationMustBeAtaWitness ==
    /\ unit # << >>
    /\ unit[1].c.transfer = "destination_is_wallet"
    /\ unit[1].c.pay_to = PayTo /\ unit[1].c.asset = Mint
    /\ unit[1].transfer.err = "TransferToIncorrectATA"

\* The index the transfer is to be read at, for a count of 3 or 4.
TransferIndexFor(count) == IF count = 4 THEN 3 ELSE 2

\* C8: verify_instruction_count answers instructions_length for every count
\* other than 3 and 4, and otherwise has_create_ata = (count = 4); the
\* pipeline reads the transfer at index 3 when has_create_ata and at index 2
\* otherwise: what it accepts has a TransferChecked there, and scenario 1
\* with and without the create-ATA instruction is accepted.
InstructionCountRule ==
    /\ \A u \in {unit[i] : i \in 1..Len(unit)} :
          LET count == Len(Transaction(u.c).message.instructions)
          IN  /\ count \notin {3, 4} =>
                    TagOf(u.count) =
                        "invalid_exact_svm_payload_transaction_instructions_length"
              /\ count \in {3, 4} => u.count.ok /\ u.count.val = (count = 4)
              /\ u.c.shape \in {"0", "2", "5"} => ~u.count.ok
    /\ \A e \in Events :
          LET instructions == Transaction(e.c).message.instructions
              count == Len(instructions)
          IN  /\ Accepted(e) =>
                    /\ count \in {3, 4}
                    /\ instructions[TransferIndexFor(count) + 1] =
                           TransferInstruction(e.c.transfer, e.c.amount)
              /\ (/\ e.c = [Base EXCEPT !.shape = e.c.shape, !.now = e.c.now]
                  /\ e.c.shape \in {"3", "4"}
                  /\ e.up = <<TRUE, TRUE>>)
                     => Accepted(e)

\* Scenario 1 with a create-ATA instruction, accepted.
InstructionCountWitness ==
    \E e \in Events : e.c = [Base EXCEPT !.shape = "4"] /\ Accepted(e)

\* The expiry step turned the request away.
RejectedByExpiry(e) == e.out.err = "UnexpectedError" /\ e.out.detail = "expired"

\* C9: a request that reaches the expiry step is rejected there exactly when
\* it carries a timestamp and now - timestamp > payment_expiry_seconds; an
\* age equal to the limit passes and a request without a timestamp always
\* passes.
ExpiryRule ==
    \A e \in Events :
        ~e.dup =>
            /\ RejectedByExpiry(e) <=>
                  /\ e.c.timestamp # << >>
                  /\ e.at - e.c.timestamp[1] > PaymentExpirySeconds
            /\ e.c.timestamp = << >> => ~RejectedByExpiry(e)

\* An age one second over the limit, rejected.
ExpiryRuleWitness ==
    \E e \in Events :
        /\ ~e.dup
        /\ e.c.timestamp # << >>
        /\ e.at - e.c.timestamp[1] = PaymentExpirySeconds + 1
        /\ RejectedByExpiry(e)
        /\ Rejected(e)

\* C10: when the verification embedded in /settle rejects, the settle
\* response carries the verification's tag and the key is not loaded, nothing
\* is signed and nothing is sent; what the fee payer signs is the transaction
\* of a blob whose verification succeeded in the same call.
SettleStopsOnRejection ==
    \A e \in Events :
        e.kind = "settle" =>
            /\ Rejected(e) =>
                  /\ e.sresp.responded /\ ~e.sresp.success
                  /\ e.sresp.error_reason = e.resp.invalid_reason
                  /\ ~e.eff.decoded /\ ~e.eff.key_loaded /\ ~e.eff.sent
                  /\ e.eff.signed = << >>
            /\ e.eff.key_loaded \/ e.eff.sent \/ e.eff.signed # << >> =>
                  /\ Accepted(e)
                  /\ e.eff.signed = <<Transaction(e.c)>>

\* A rejected underpayment on /settle.
SettleStopsOnRejectionWitness ==
    \E e \in Events :
        /\ e.kind = "settle"
        /\ e.c.amount = "999999" /\ e.c.required = "1000000"
        /\ e.sresp.error_reason =
               <<"invalid_exact_svm_payload_transaction_amount_mismatch">>
        /\ e.eff = NoSettlement

(***************************************************************************)
(* POST /verify/batch.                                                     *)
(***************************************************************************)
\* The event of the slot that verified input i, if the pool ran it.
SlotsOf(i) == {k \in 1..Len(log) : batch[1].order[k] = i}

\* C12: a batch call returns exactly one response per input, response i being
\* the verification result of input i whatever order the workers took the
\* slots in; an empty input gives an empty output.
BatchAligned ==
    batch # << >> =>
        /\ Len(batch[1].output) = Len(batch[1].inputs)
        /\ \A i \in 1..Len(batch[1].inputs) :
              \E k \in SlotsOf(i) :
                  /\ log[k].resp.responded
                  /\ batch[1].output[i] = log[k].resp

\* C13: however one request of a batch fails, every other request has its own
\* result in its own slot and the output is as long as the input.
BatchSurvivesFailure ==
    batch # << >> =>
        /\ Len(batch[1].output) = Len(batch[1].inputs)
        /\ \A i \in 1..Len(batch[1].inputs) :
              (\A k \in SlotsOf(i) : log[k].out.err # "Panic") =>
                  /\ i \in DOMAIN batch[1].output
                  /\ \E k \in SlotsOf(i) : batch[1].output[i] = log[k].resp

(***************************************************************************)
(* The tags of the dedup and expiry steps.                                 *)
(***************************************************************************)
\* C14: when the dedup step finds the blob's fingerprint present, the
\* verification response, and the errorReason /settle derives from it, carry
\* the tag duplicate_transaction.
DuplicateTagged ==
    \A e \in Events :
        e.dup =>
            /\ e.resp.invalid_reason = <<"duplicate_transaction">>
            /\ e.kind = "settle" => e.sresp.error_reason = <<"duplicate_transaction">>

\* C15: when the expiry step rejects a request (timestamp present and
\* now - timestamp > payment_expiry_seconds), the verification response
\* carries the tag payment_expired.
ExpiredTagged ==
    \A e \in Events :
        (/\ ~e.dup
         /\ e.c.timestamp # << >>
         /\ e.at - e.c.timestamp[1] > PaymentExpirySeconds)
            => e.resp.invalid_reason = <<"payment_expired">>

(***************************************************************************)
(* The order of the pipeline.                                              *)
(***************************************************************************)
\* The steps of the pipeline, in the order listed.
PipelineSteps ==
    <<"dedup", "expiry", "scheme_network", "decode", "fee_payer_parse", "count", "limit",
      "price", "safety", "create_ata", "transfer">>

\* What one step, taken on its own, answers for the request of event e.  A
\* step past the decode step is asked only of a request that decodes, and a
\* step past the count step only of one with 3 or 4 instructions.
StepResult(e, step) ==
    LET payload == VerifyRequest(e.c).payment_payload
        requirements == VerifyRequest(e.c).payment_requirements
        decoded == DecodeTransactionFromBase64(payload.transaction)
        message == decoded.val.message
        fee_payer == ParsePubkey(requirements.fee_payer)
        has_create_ata == VerifyInstructionCount(decoded.val).val
    IN  CASE step = "dedup" -> IF e.dup THEN UnexpectedError("duplicate") ELSE Ok(TRUE)
          [] step = "expiry" ->
                 IF /\ payload.timestamp # << >>
                    /\ e.at - payload.timestamp[1] > PaymentExpirySeconds
                 THEN UnexpectedError("expired") ELSE Ok(TRUE)
          [] step = "scheme_network" ->
                 IF payload.scheme # requirements.scheme \/ payload.scheme # "exact"
                 THEN Err("UnsupportedScheme")
                 ELSE IF \/ payload.network # requirements.network
                         \/ requirements.network \notin SupportedNetworks
                 THEN Err("InvalidNetwork") ELSE Ok(TRUE)
          [] step = "decode" -> IF decoded.ok THEN Ok(TRUE) ELSE UnexpectedError("decode")
          [] step = "fee_payer_parse" ->
                 IF fee_payer.ok THEN Ok(TRUE) ELSE UnexpectedError("fee_payer")
          [] step = "count" -> VerifyInstructionCount(decoded.val)
          [] step = "limit" -> VerifyComputeLimitInstruction(message.instructions[1], message)
          [] step = "price" -> VerifyComputePriceInstruction(message.instructions[2], message)
          [] step = "safety" -> VerifyFeePayerSafety(decoded.val, fee_payer.val)
          [] step = "create_ata" ->
                 IF has_create_ata
                 THEN VerifyCreateAtaInstruction(message.instructions[3], message, requirements)
                 ELSE Ok(TRUE)
          [] step = "transfer" ->
                 VerifyTransferInstruction(
                     message.instructions[IF has_create_ata THEN 4 ELSE 3], message,
                     requirements, fee_payer.val, has_create_ata, RpcAnswers(e.up))

\* The first step from k on that does not pass (0: every step passes).
RECURSIVE EarliestFailing(_, _)
EarliestFailing(e, k) ==
    IF k > Len(PipelineSteps) THEN 0
    ELSE IF ~StepResult(e, PipelineSteps[k]).ok THEN k
    ELSE EarliestFailing(e, k + 1)

\* C16: the steps run in the listed order and stop at the first failure: a
\* verification ends with the outcome of its earliest failing step (its tag
\* when it answers, the unwinding when that step panics), whatever the later
\* steps would say, and looks up no account unless every step before the
\* transfer step passed; it accepts exactly when no step fails.
StepsInOrder ==
    \A e \in Events :
        LET k == EarliestFailing(e, 1)
        IN  IF k = 0
            THEN Accepted(e) /\ e.out.rpc = StepResult(e, "transfer").rpc
            ELSE /\ e.out = StepResult(e, PipelineSteps[k])
                 /\ TagOf(e.out) # "" => e.resp.invalid_reason = <<TagOf(e.out)>>
                 /\ k < Len(PipelineSteps) => e.out.rpc = << >>

\* A request whose compute-limit instruction and whose transfer amount are
\* both wrong is answered with the compute-limit tag.
StepsInOrderWitness ==
    \E e \in Events :
        /\ EarliestFailing(e, 1) = 7
        /\ e.c.amount = "999999"
        /\ e.c.required = "1000000"
        /\ e.resp.invalid_reason = <<AsStr("InvalidComputeLimitInstruction")>>

TransferOf(e) ==
    LET instructions == Transaction(e.c).message.instructions
    IN  instructions[IF Len(instructions) = 4 THEN 4 ELSE 3]

\* The verification of event e reaches the transfer step and the transfer
\* passes every check that does not depend on the chain (it is accepted by a
\* chain on which every account exists).
StructuralChecksPass(e) ==
    /\ EarliestFailing(e, 1) \in {0, Len(PipelineSteps)}
    /\ VerifyTransferInstruction(TransferOf(e), Transaction(e.c).message,
                                 PaymentRequirements(e.c), e.c.fee_payer,
                                 Len(Transaction(e.c).message.instructions) = 4,
                                 <<STRING, STRING>>).ok

\* C20: once the structural transfer checks pass, a failed lookup of the
\* source account (absent, or the RPC call failing) gives
\* sender_ata_not_found; otherwise, without a Create-ATA instruction, a failed
\* lookup of the expected destination gives receiver_ata_not_found; with a
\* Create-ATA instruction the destination is not looked up.
LookupOrder ==
    \A e \in Events :
        StructuralChecksPass(e) =>
            LET message == Transaction(e.c).message
                has_create_ata == Len(message.instructions) = 4
                source == KeyAt(message, TransferOf(e).accounts[1])
                expected_destination == GetAssociatedTokenAddress(e.c.pay_to, e.c.asset)
                source_found == e.up[1] /\ source \in e.c.chain
                destination_found == e.up[2] /\ expected_destination \in e.c.chain
            IN  IF ~source_found
                THEN /\ e.resp.invalid_reason = <<AsStr("SenderATANotFound")>>
                     /\ e.out.rpc = <<source>>
                ELSE IF has_create_ata
                THEN Accepted(e) /\ e.out.rpc = <<source>>
                ELSE IF ~destination_found
                THEN /\ e.resp.invalid_reason = <<AsStr("ReceiverATANotFound")>>
                     /\ e.out.rpc = <<source, expected_destination>>
                ELSE Accepted(e) /\ e.out.rpc = <<source, expected_destination>>

\* A transfer behind a Create-ATA instruction, accepted although the
\* destination account does not exist yet.
LookupOrderWitness ==
    \E e \in Events :
        /\ StructuralChecksPass(e)
        /\ e.c.shape = "4"
        /\ DestAta \notin e.c.chain
        /\ Accepted(e)
        /\ e.out.rpc = <<SourceAta>>

(***************************************************************************)
(* The chain submitter.                                                    *)
(***************************************************************************)
\* The ways submit_and_confirm_transaction can end.
AttemptResults ==
    {Ok("signature"), Err("Transaction failed"), Err("Transaction confirmation timed out"),
     Err("Failed to send transaction")}

\* C18: an attempt whose send succeeded ends with the signature (the polled
\* status reports success), with a failure (the status reports an error) or
\* with a confirmation timeout (the time since the send exceeds
\* timeout_seconds at the top of the loop) and in no other way; a pending
\* status or an RPC error while polling is never the result, it is followed
\* by a 500 ms sleep and the next round of the loop; an attempt whose send
\* failed ends at once, without a poll.
ConfirmOutcome ==
    /\ sub.last \in {"pending", "rpc_error"} => sub.pc = "sleep" /\ sub.ret = << >>
    /\ sub.last = "sleep_500ms" => sub.pc \in {"check", "poll"} /\ sub.ret = << >>
    /\ sub.pc = "poll" => sub.elapsed <= TicksPerSecond * TimeoutSeconds
    /\ sub.pc = "match" =>
          /\ sub.ret[1] \in AttemptResults
          /\ sub.ret[1] = Ok("signature") <=> sub.last = "confirmed"
          /\ sub.ret[1] = Err("Transaction failed") <=> sub.last = "status_error"
          /\ sub.ret[1] = Err("Transaction confirmation timed out") <=> sub.last = "timeout"
          /\ sub.last = "timeout" => sub.elapsed > TicksPerSecond * TimeoutSeconds
          /\ sub.ret[1] = Err("Failed to send transaction") <=> sub.last = "send_failed"
          /\ sub.last = "send_failed" => sub.polls = 0
          /\ sub.last # "send_failed" => sub.polls > 0 \/ sub.last = "timeout"

\* An attempt that returns the signature at its third poll.
ConfirmOutcomeWitness ==
    /\ sub.pc = "match"
    /\ sub.ret = <<Ok("signature")>>
    /\ sub.polls = 3

\* The waits after failed attempts 1 .. n.
Backoffs(n) == [i \in 1..n |-> 2 ^ (i - 1)]

\* C19: a call makes at most max_retries attempts, each sending the same
\* signed transaction; it returns at the first successful attempt with no
\* further send; it waits 2^(attempt-1) seconds after each failed attempt but
\* the last; and when every attempt fails it returns the last attempt's error.
RetryContract ==
    LET n == Len(sub.attempts)
    IN  /\ n <= sub.max_retries
        /\ Len(sub.sent) <= sub.max_retries
        /\ \A i \in 1..Len(sub.sent) : sub.sent[i] = sub.transaction
        /\ \A i \in 1..(n - 1) : ~sub.attempts[i].ok
        /\ \E k \in 0..Len(sub.backoffs) :
              /\ sub.backoffs = Backoffs(k)
              /\ k < sub.max_retries \/ k = 0
        /\ sub.pc = "done" =>
              /\ Len(sub.sent) = n
              /\ IF n > 0 /\ sub.attempts[n].ok
                 THEN sub.result = <<sub.attempts[n]>> /\ sub.backoffs = Backoffs(n - 1)
                 ELSE /\ n = sub.max_retries
                      /\ sub.backoffs = Backoffs(IF n = 0 THEN 0 ELSE n - 1)
                      /\ ~sub.result[1].ok
                      /\ n > 0 => sub.result = <<sub.attempts[n]>>

\* Four attempts that all fail, the first and the last differently.
RetryContractWitness ==
    /\ sub.pc = "done"
    /\ sub.max_retries = 4
    /\ Len(sub.attempts) = 4
    /\ sub.attempts[1].err # sub.attempts[4].err
    /\ sub.backoffs = <<1, 2, 4>>
    /\ sub.result = <<sub.attempts[4]>>

(***************************************************************************)
(* The Create-ATA instruction.                                             *)
(***************************************************************************)
CreateAtaTags ==
    {AsStr("InvalidCreateATAInstruction"), AsStr("CreateATAIncorrectPayee"),
     AsStr("CreateATAIncorrectAsset")}

\* Every step before the Create-ATA step passes for the request of event e.
ReachesCreateAta(e) == EarliestFailing(e, 1) \in {0, 10, 11}

\* C21: in a transaction of 4 instructions that reaches the Create-ATA step,
\* instruction 2 is rejected with create_ata_instruction when its program is
\* not the associated-token-account program or it lists fewer than 6
\* accounts, else with create_ata_instruction_incorrect_payee when the owner
\* (account position 2) is not pay_to, else with
\* create_ata_instruction_incorrect_asset when the mint (position 3) is not
\* asset, and passes otherwise; a transaction of 3 instructions is never
\* answered with a Create-ATA tag.
CreateAtaRule ==
    \A e \in Events :
        ReachesCreateAta(e) =>
            LET message == Transaction(e.c).message
                instruction == message.instructions[3]
                tag == IF e.resp.invalid_reason = << >> THEN ""
                       ELSE e.resp.invalid_reason[1]
            IN  IF Len(message.instructions) = 3 THEN tag \notin CreateAtaTags
                ELSE IF ~InRange(message, instruction.program_id_index) THEN TRUE
                ELSE IF \/ KeyAt(message, instruction.program_id_index) #
                               AssociatedTokenProgramId
                        \/ Len(instruction.accounts) < 6
                THEN tag = AsStr("InvalidCreateATAInstruction")
                ELSE IF KeyAt(message, instruction.accounts[3]) # e.c.pay_to
                THEN tag = AsStr("CreateATAIncorrectPayee")
                ELSE IF KeyAt(message, instruction.accounts[4]) # e.c.asset
                THEN tag = AsStr("CreateATAIncorrectAsset")
                ELSE tag \notin CreateAtaTags

\* A Create-ATA instruction with a wrong owner and a wrong mint, answered
\* with the payee tag.
CreateAtaRuleWitness ==
    \E e \in Events :
        /\ ReachesCreateAta(e)
        /\ e.c.shape = "4"
        /\ e.c.create_ata = "wrong_owner_and_mint"
        /\ e.resp.invalid_reason = <<AsStr("CreateATAIncorrectPayee")>>

(***************************************************************************)
(* The scheme/network step.                                                *)
(***************************************************************************)
\* The request of event e passes the dedup and expiry steps.
ReachesSchemeStep(e) ==
    /\ ~e.dup
    /\ ~(e.c.timestamp # << >> /\ e.at - e.c.timestamp[1] > PaymentExpirySeconds)

StableTags ==
    {AsStr(e) : e \in {"UnsupportedScheme", "InvalidNetwork", "InvalidInstructionCount",
                       "InvalidComputeLimitInstruction", "InvalidComputePriceInstruction",
                       "ComputePriceTooHigh", "FeePayerInInstructionAccounts",
                       "FeePayerTransferringFunds", "AmountMismatch",
                       "InvalidCreateATAInstruction", "CreateATAIncorrectPayee",
                       "CreateATAIncorrectAsset", "TransferToIncorrectATA",
                       "SenderATANotFound", "ReceiverATANotFound",
                       "NotATransferInstruction", "UnexpectedError"}}

\* C23: every request whose blob decodes, whatever indices its instructions
\* carry, is answered: the verification completes with a response that is
\* valid or carries a stable tag, and /settle answers too.
AlwaysResponds ==
    \A e \in Events :
        DecodeTransactionFromBase64(Blob(e.c)).ok =>
            /\ e.resp.responded
            /\ e.resp.is_valid \/ \E tag \in StableTags : e.resp.invalid_reason = <<tag>>
            /\ e.kind = "settle" => e.sresp.responded

(***************************************************************************)
(* Side effects.                                                           *)
(***************************************************************************)
\* C24: a response is produced by the handler's own step, from the request,
\* the dedup store, the clock and the chain, while the audit events and the
\* webhook deliveries of the call are still outstanding; and no step of the
\* audit writer or of a webhook delivery (delivered, failed, dropped after
\* the last attempt, or never taken) changes a response or anything a later
\* response is computed from.
ResponsesIgnoreSideEffects ==
    [][/\ log' = log => UNCHANGED <<dedup, window, now, chain>>
       /\ log' # log =>
             \A i \in 1..Len(log') :
                 LET e == log'[i]
                     res == VerifyPaymentSteps(VerifyRequest(e.c),
                                               DedupGet(dedup, e.hash, now), now,
                                               RpcAnswers(e.up))
                 IN  /\ e.resp = VerifyResponse(res)
                     /\ e.kind = "settle" =>
                           \E submit_ok \in BOOLEAN :
                               e.sresp = Settle(VerifyRequest(e.c), VerifyResponse(res),
                                                submit_ok).resp]_vars

\* An accepted verification answered while its audit events are unwritten
\* and its webhook delivery has failed twice and is not finished.
ResponsesIgnoreSideEffectsWitness ==
    /\ log # << >>
    /\ Accepted(log[1])
    /\ Len(fx.audit) >= 2
    /\ fx.spawned # << >>
    /\ fx.hooks[WebhookRetryAttempts] > 0

\* The cap the queues are held against.
QueueCap == MaxPending + 1

\* C25: the audit events enqueued and not yet written, and the webhook
\* deliveries started and not yet finished, never exceed a fixed cap.
SideEffectQueuesBounded ==
    /\ Len(fx.audit) <= QueueCap
    /\ HooksInFlight(fx) <= QueueCap

\* C26: in every verify response isValid is true exactly when the payer is
\* present and the reason absent, and a reason that is present is a stable
\* tag; in every settle response the transaction string is empty exactly when
\* success is false, and errorReason is present exactly when success is false.
ResponseShape ==
    \A e \in Events :
        /\ e.resp.responded =>
              /\ e.resp.is_valid <=> (e.resp.payer # << >> /\ e.resp.invalid_reason = << >>)
              /\ e.resp.invalid_reason # << >> => e.resp.invalid_reason[1] \in StableTags
        /\ e.sresp.responded =>
              /\ (e.sresp.transaction = "") <=> ~e.sresp.success
              /\ (e.sresp.error_reason # << >>) <=> ~e.sresp.success

\* A /settle whose verification was rejected by the dedup step, answered with
\* the verification's tag and no transaction.
ResponseShapeWitness ==
    \E e \in Events :
        /\ e.kind = "settle"
        /\ e.dup
        /\ e.sresp.responded
        /\ ~e.sresp.success
        /\ e.sresp.error_reason = <<"unexpected_verify_error">>
        /\ e.sresp.transaction = ""

(***************************************************************************)
(* Verify, then settle.                                                    *)
(***************************************************************************)
\* C27: a /settle that comes after a /verify of the same blob recorded its
\* fingerprint, while that window is open and the entry not evicted, is
\* rejected at the dedup step of its embedded verification, and loads no key,
\* signs nothing and submits nothing.
VerifyThenSettleRejected ==
    \A e \in Events :
        (e.kind = "settle" /\ e.follows_verify /\ e.in_window) =>
            /\ e.dup
            /\ e.out = UnexpectedError("duplicate")
            /\ e.sresp.responded
            /\ ~e.sresp.success
            /\ e.eff = NoSettlement

\* Scenario 1 verified, and its settlement asked for in the last second of
\* the window the verification opened.
VerifyThenSettleRejectedWitness ==
    \E e \in Events :
        /\ e.kind = "settle"
        /\ e.c = Base
        /\ e.follows_verify
        /\ e.in_window
        /\ e.hash \in DOMAIN window
        /\ e.at = window[e.hash] + DedupWindowSeconds - 1
        /\ e.sresp.error_reason = <<"unexpected_verify_error">>
        /\ e.eff = NoSettlement

(***************************************************************************)
(* Checks before chain I/O.                                                *)
(***************************************************************************)
\* The tags of the two account lookups.
LookupTags == {AsStr("SenderATANotFound"), AsStr("ReceiverATANotFound")}

\* C28: a verification issues a get_account call only after every step before
\* the transfer step and the transfer's program, discriminator, amount,
\* authority and destination checks have passed; a request one of these
\* rejects, or on which one of these faults, causes no RPC call.
ChecksBeforeChainIo ==
    \A e \in Events :
        /\ e.out.rpc # << >> => StructuralChecksPass(e)
        /\ (Rejected(e) /\ e.resp.invalid_reason[1] \notin LookupTags) => e.out.rpc = << >>
        /\ ~e.resp.responded => e.out.rpc = << >>

\* A transfer to an account that is not the payee's, turned away by the
\* destination comparison with no lookup, on a chain where the lookups would
\* have failed.
ChecksBeforeChainIoWitness ==
    \E e \in Events :
        /\ EarliestFailing(e, 1) = Len(PipelineSteps)
        /\ e.resp.invalid_reason = <<AsStr("TransferToIncorrectATA")>>
        /\ ~e.up[1]
        /\ e.out.rpc = << >>

(***************************************************************************)
(* The account cache.                                                      *)
(***************************************************************************)
\* C29: check_account_exists consults the cache first: on a hit it returns
\* true with no RPC call and the cache as it was; on a miss it makes one
\* get_account call; when that succeeds it returns true and the account is in
\* the cache; when it fails it returns false and the cache is as it was, so
\* that the next query for the key goes to the RPC again.
CacheFirst ==
    [][lookups' # lookups =>
          LET r == lookups'[1]
          IN  /\ IF CacheGet(cache, r.key, now)
                 THEN r.ret /\ r.rpc = << >> /\ cache' = cache
                 ELSE /\ r.rpc = <<r.key>>
                      /\ IF r.up /\ r.key \in chain
                         THEN /\ r.ret
                              /\ CacheGet(cache', r.key, now)
                              /\ \A k \in DOMAIN cache \ {r.key} :
                                    k \in DOMAIN cache' /\ cache'[k] = cache[k]
                         ELSE ~r.ret /\ cache' = cache
              /\ (r.retry /\ cache = cache') => r.rpc = <<r.key>>]_vars

\* A key whose lookup failed is asked about again: the second call goes to
\* the RPC, which now answers, and the account is cached.
CacheFirstWitness ==
    /\ lookups # << >>
    /\ lookups[1].retry
    /\ lookups[1].up
    /\ lookups[1].ret
    /\ lookups[1].rpc = <<lookups[1].key>>
    /\ CacheGet(cache, lookups[1].key, now)

\* C30: a verification issues no get_account call for an account that is
\* cached and unexpired, and an account a verification looked up with success
\* is in the cache afterwards.
PipelineLookupsCached ==
    [][log' # log =>
          \A i \in 1..Len(log') :
              LET e == log'[i]
              IN  \A n \in 1..Len(e.out.rpc) :
                      /\ ~CacheGet(cache, e.out.rpc[n], now)
                      /\ e.out.rpc[n] \in RpcAnswers(e.up)[n] =>
                            CacheGet(cache', e.out.rpc[n], now)]_vars

(***************************************************************************)
(* The submitter returns.                                                  *)
(***************************************************************************)
\* C31: when each RPC call returns, every attempt's wait for confirmation
\* ends (with a timeout failure if nothing else ended it), and
\* submit_transaction_with_retries returns.
SubmitReturns ==
    /\ (sub.pc = "check") ~> (sub.pc = "match")
    /\ <>(sub.pc = "done")

\* A call whose every attempt was sent, saw no confirmed or failed status in
\* any poll, and timed out; the call has returned the timeout failure.
SubmitReturnsWitness ==
    /\ sub.pc = "done"
    /\ sub.max_retries = MaxAttempts
    /\ Len(sub.attempts) = MaxAttempts
    /\ \A i \in 1..Len(sub.attempts) :
          sub.attempts[i] = Err("Transaction confirmation timed out")
    /\ sub.result = <<Err("Transaction confirmation timed out")>>

(***************************************************************************)
(* Webhook delivery.                                                       *)
(***************************************************************************)
\* The failed attempts among the POSTs made so far.
FailedPosts == {i \in 1..Len(hook.outcomes) : hook.outcomes[i] # "2xx"}

\* C32: send_webhook makes at most retry_attempts POSTs, all with the same
\* body and signature; only a 2xx response ends the loop with success, and
\* any other status or a transport error is a failed attempt; it sleeps
\* 100 ms * 2^(attempt-1) after each failed attempt except the last, and after
\* the last failed attempt it returns the last error.
WebhookRetryContract ==
    LET n == Len(hook.outcomes)
        body == PayloadJson(hook.payload)
    IN  /\ n <= hook.retry_attempts
        /\ Len(hook.posts) = n
        /\ \A i \in 1..n :
              hook.posts[i] = [body |-> body,
                               signature |-> GenerateSignature(hook.secret, body)]
        /\ \A i \in 1..n : i < n => i \in FailedPosts
        /\ (n > 0 /\ n \notin FailedPosts) =>
              hook.pc = "done" /\ hook.result = <<Ok(TRUE)>>
        /\ n \in FailedPosts => hook.result # <<Ok(TRUE)>>
        /\ hook.sleeps = [i \in 1..Len(hook.sleeps) |-> 100 * 2 ^ (i - 1)]
        /\ Len(hook.sleeps) =
              Cardinality({i \in FailedPosts : i < hook.retry_attempts})
                  - (IF hook.pc = "backoff" THEN 1 ELSE 0)
        /\ (hook.pc = "done" /\ n \in FailedPosts) =>
              n = hook.retry_attempts /\ hook.result = <<Err(hook.outcomes[n])>>

\* Three attempts allowed and three failed, by a status and by transport
\* errors: two waits, of 100 and 200 ms, and the last error returned.
WebhookRetryContractWitness ==
    /\ hook.pc = "done"
    /\ hook.retry_attempts = 3
    /\ hook.outcomes = <<"non_2xx", "transport_error", "transport_error">>
    /\ hook.sleeps = <<100, 200>>
    /\ hook.result = <<Err("transport_error")>>

\* C40: an enabled send_webhook returns Ok only if one of its attempts got a
\* 2xx response, whatever retry_attempts is.
OkOnlyIfDelivered ==
    (hook.pc = "done" /\ hook.enabled /\ hook.result = <<Ok(TRUE)>>) =>
        \E i \in 1..Len(hook.outcomes) : hook.outcomes[i] = "2xx"

(***************************************************************************)
(* Time to live.                                                           *)
(***************************************************************************)
\* The entries of a store other than key are the same after the step.
OthersKept(before, after, key) ==
    \A k \in DOMAIN before \ {key} : k \in DOMAIN after /\ after[k] = before[k]

\* C33: in the account cache and in the dedup store a key is found exactly
\* while less than the time to live has passed since it was inserted; a hit
\* leaves the store as it was, so the entry's lifetime is not extended; a miss
\* that inserts records the time of the insertion and touches no other key;
\* and the passing of time alone never changes an insertion time.
TtlDiscipline ==
    [][/\ lookups' # lookups =>
             LET r == lookups'[1]
                 found == r.rpc = << >>
             IN  /\ found <=> (r.key \in DOMAIN cache /\ now - cache[r.key] < CacheTtlSeconds)
                 /\ found => cache' = cache
                 /\ OthersKept(cache, cache', r.key)
                 /\ cache' # cache => cache'[r.key] = now
       /\ log' # log =>
             \A i \in 1..Len(log') :
                 LET e == log'[i]
                 IN  /\ e.dup <=> (e.hash \in DOMAIN dedup
                                   /\ now - dedup[e.hash] < DedupWindowSeconds)
                     /\ e.dup => dedup' = dedup
                     /\ OthersKept(dedup, dedup', e.hash)
                     /\ ~e.dup => dedup'[e.hash] = now
       /\ now' # now =>
             /\ \A k \in DOMAIN cache' : k \in DOMAIN cache /\ cache'[k] = cache[k]
             /\ \A h \in DOMAIN dedup' : h \in DOMAIN dedup /\ dedup'[h] = dedup[h]]_vars

\* An account cached earlier is asked about once its time to live is over:
\* the call misses and goes to the RPC, which fails, and the old entry is
\* still the one stored; the latest verification was a duplicate hit.
TtlDisciplineWitness ==
    /\ lookups # << >>
    /\ lookups[1].rpc = <<lookups[1].key>>
    /\ ~lookups[1].ret
    /\ lookups[1].key \in DOMAIN cache
    /\ now >= cache[lookups[1].key] + CacheTtlSeconds
    /\ log # << >>
    /\ log[1].dup

(***************************************************************************)
(* The fee payer's signature.                                              *)
(***************************************************************************)
\* C34: signing as fee payer puts the fee payer's signature over the
\* serialized message in slot 0, pushing it onto an empty list and
\* overwriting slot 0 otherwise, and leaves the message and every other
\* signature slot as they were.
SignatureInSlotZero ==
    \A i \in 1..Len(unit) :
        LET before == unit[i].before
            after == unit[i].after
        IN  /\ after.message = before.message
            /\ Len(after.signatures) =
                  IF before.signatures = << >> THEN 1 ELSE Len(before.signatures)
            /\ after.signatures[1] =
                  <<"ed25519", unit[i].fee_payer, <<"bincode", before.message>>>>
            /\ \A k \in 2..Len(before.signatures) :
                  after.signatures[k] = before.signatures[k]

\* A transaction with an empty slot 0 and two client signatures behind it:
\* slot 0 now holds the fee payer's signature, the other two are untouched.
SignatureInSlotZeroWitness ==
    \E i \in 1..Len(unit) :
        /\ unit[i].before.signatures = <<"none", "client-signature", "cosigner-signature">>
        /\ unit[i].after.signatures[1] # "none"
        /\ SubSeq(unit[i].after.signatures, 2, 3) = <<"client-signature", "cosigner-signature">>

(***************************************************************************)
(* The batch path against the single-request path.                         *)
(***************************************************************************)
\* C35: a verification run by the batch path (verify_payment_sync) gives,
\* for the same request, dedup store, clock and chain, the outcome
\* verify_payment gives (the same payer, the same error, the same fault), the
\* same response, and leaves the dedup store as verify_payment leaves it.
BatchSameAsSingle ==
    [][(log' # log /\ log'[1].kind = "batch") =>
          LET e == log'[1]
              v == VerifyPayment(dedup, VerifyRequest(e.c), now, RpcAnswers(e.up))
          IN  /\ e.out = v.res
              /\ e.dup = v.dup
              /\ e.resp = VerifyResponse(v.res)
              /\ dedup' = v.store]_vars

\* A batch slot whose payload is older than the expiry limit: rejected at the
\* expiry step, its fingerprint recorded.
BatchSameAsSingleWitness ==
    \E e \in Events :
        /\ e.kind = "batch"
        /\ ~e.dup
        /\ e.out = UnexpectedError("expired")
        /\ e.hash \in DOMAIN dedup
        /\ dedup[e.hash] = e.at

\* The elements of a sequence.
Range(seq) == {seq[i] : i \in 1..Len(seq)}

\* C36: every verify outcome and every settle outcome of the latest call, on
\* /verify, /verify/batch and /settle, has its audit event enqueued and its
\* metric counted and, when a webhook endpoint is configured, its webhook
\* spawned.
OutcomesNoted ==
    \A e \in Events :
        /\ e.resp.responded =>
              /\ (IF e.resp.is_valid THEN "verification_success" ELSE "verification_failed")
                     \in Range(fx.logged)
              /\ \E m \in Range(fx.counted) :
                     m[1] = (IF e.resp.is_valid THEN "verification_success"
                             ELSE "verification_failure")
              /\ fx.webhook =>
                     (IF e.resp.is_valid THEN "verification.success"
                      ELSE "verification.failure") \in Range(fx.spawned)
        /\ e.sresp.responded =>
              /\ (IF e.sresp.success THEN "settlement_success" ELSE "settlement_failed")
                     \in Range(fx.logged)
              /\ <<"settle_requests", "network",
                   IF e.sresp.success THEN "success" ELSE "failure">> \in Range(fx.counted)
              /\ fx.webhook =>
                     (IF e.sresp.success THEN "settlement.success"
                      ELSE "settlement.failure") \in Range(fx.spawned)

FutureTimestampsPass ==
    \A e \in Events :
        (e.c.timestamp # << >> /\ e.c.timestamp[1] >= e.at) =>
            /\ SaturatingSub(e.at, e.c.timestamp[1]) = 0
            /\ ~RejectedByExpiry(e)

\* A batch slot with a timestamp as far ahead of the clock as it can be,
\* accepted.
FutureTimestampsPassWitness ==
    \E e \in Events :
        /\ e.kind = "batch"
        /\ e.c.timestamp # << >>
        /\ e.c.timestamp[1] - e.at = MaxTime + 1
        /\ Accepted(e)

=============================================================================
